---- MODULE Spec2Model ----
(***************************************************************************)
(* A model of the schematic codec library oriumgames/schem: the uniform    *)
(* in-memory model (base.SchematicImpl), the palette, VarInt and           *)
(* long-array primitives, the Sponge v1/v2/v3, Litematica and Axiom        *)
(* codecs, the MCEdit reader, and the dispatch surface (Detect, Read,      *)
(* ReadFormat, Write, WriteFormat).                                        *)
(*                                                                         *)
(* Conventions.                                                            *)
(*  - A Go string that is parsed or formatted is a Text: a sequence of     *)
(*    tokens.  The delimiters "[", "]", "," and "=" are tokens of their    *)
(*    own; every other token is a delimiter-free piece of text (a block    *)
(*    name, a property key, a property value).  The empty Go string is the *)
(*    empty sequence.                                                      *)
(*  - A Go map is a function whose DOMAIN is the set of keys present.      *)
(*  - A decoded NBT compound is a record; decoding it into a Go struct     *)
(*    leaves the zero value in every field whose key is absent (Field).    *)
(*  - The NBT and gzip primitives are external to the repository and are   *)
(*    taken to be lossless: a file is represented by its NBT tree.         *)
(*  - Every integer of the model lies in the signed 32-bit range, where    *)
(*    Go's int32(v) conversion of an int is the identity; the narrower     *)
(*    int16(v) conversion is modelled (ToInt16), and so is the int32 of a  *)
(*    sum that leaves the range (Int32Sum).                                *)
(*  - Schematics carry no entities, biomes or metadata, so the loops over  *)
(*    them in the writers and readers are empty and are not written out;   *)
(*    the same holds for the tile entities of the Litematica and MCEdit    *)
(*    files.  The block entities of a schematic are written and read by    *)
(*    the Sponge codecs and read by the Axiom reader; of the entities of   *)
(*    an Axiom blueprint the reader keeps the part their positions have    *)
(*    in the bounding box.                                                 *)
(***************************************************************************)
EXTENDS Integers, Sequences, FiniteSets, TLC

VARIABLES
    schem,  \* the schematic the caller holds (base.SchematicImpl)
    heap,   \* the BlockEntity objects, by reference (Go pointers)
    call,   \* the last call made on the library and its arguments
    calls,  \* number of mutating calls made so far
    file,   \* the bytes last written, as their NBT tree
    res     \* what the last read, detection or write returned

vars == <<schem, heap, call, calls, file, res>>

---------------------------------------------------------------------------
(* Bounds of the model.                                                    *)

\* Largest width and length of a schematic of the model.
MaxDim == 2
\* Largest number of SetBlock / SetBlockEntity calls in one behaviour.
MaxCalls == 2
\* Largest number of stored blocks of a schematic handed to a codec.
MaxBlocks == 2
\* The number of Add calls on a palette.
MaxAdds == 3
\* The longest value sequence given to the VarInt codec.
MaxLen == 2
\* The longest value sequence given to the long-array packers.
MaxPacked == 4

---------------------------------------------------------------------------
(* Integer widths.                                                         *)

\* Go's int16(v) conversion of an int: wraps modulo 2^16.
ToInt16(v) ==
    LET m == v % 65536
    IN  IF m >= 32768 THEN m - 65536 ELSE m

Min(a, b) == IF a < b THEN a ELSE b
Max(a, b) == IF a > b THEN a ELSE b
Abs(a) == IF a < 0 THEN -a ELSE a

\* A Go map lookup m[k] with the zero value for an absent key; also the
\* decoding of an NBT compound into a struct field.
Field(m, k, zero) == IF k \in DOMAIN m THEN m[k] ELSE zero

\* The empty Go map.
EmptyMap == <<>>

---------------------------------------------------------------------------
(* Texts, block states and the canonical block-state string (types.go).    *)

\* Go's strings.Index for a one-token separator: the first position of d in
\* the text s, or 0 when it does not occur.
TokenIndex(s, d) ==
    IF \E i \in 1..Len(s) : s[i] = d
    THEN CHOOSE i \in 1..Len(s) : s[i] = d /\ \A j \in 1..(i - 1) : s[j] # d
    ELSE 0

\* Go's strings.Cut(s, d): the text before and after the first d, and
\* whether d occurs; (s, "", false) when it does not.
Cut(s, d) ==
    LET i == TokenIndex(s, d)
    IN  IF i = 0
        THEN [before |-> s, after |-> <<>>, found |-> FALSE]
        ELSE [before |-> SubSeq(s, 1, i - 1),
              after |-> SubSeq(s, i + 1, Len(s)),
              found |-> TRUE]

\* Go's strings.TrimSuffix(s, d) for a one-token suffix.
TrimSuffix(s, d) ==
    IF Len(s) > 0 /\ s[Len(s)] = d THEN SubSeq(s, 1, Len(s) - 1) ELSE s

\* Go's strings.Split(s, d): the parts of s between the occurrences of d,
\* always at least one part.
RECURSIVE Split(_, _)
Split(s, d) ==
    LET c == Cut(s, d)
    IN  IF c.found THEN <<c.before>> \o Split(c.after, d) ELSE <<s>>

\* The decimal numerals of the model that strconv.Atoi takes and the int
\* (of 64 bits) it gives each, written q * 2^31 + r with 0 <= r < 2^31.  A
\* text that is no numeral, or a numeral beyond 64 bits, is not in the
\* domain: Atoi returns an error for it.
Atoi ==
    [n \in {"0", "1", "3", "7", "53", "-1", "2147483647", "-2147483648",
            "2147483648", "4294967297", "-2147483649"} |->
        CASE n = "0" -> [q |-> 0, r |-> 0]
          [] n = "1" -> [q |-> 0, r |-> 1]
          [] n = "3" -> [q |-> 0, r |-> 3]
          [] n = "7" -> [q |-> 0, r |-> 7]
          [] n = "53" -> [q |-> 0, r |-> 53]
          [] n = "-1" -> [q |-> -1, r |-> 2147483647]
          [] n = "2147483647" -> [q |-> 0, r |-> 2147483647]
          [] n = "-2147483648" -> [q |-> -1, r |-> 0]
          [] n = "2147483648" -> [q |-> 1, r |-> 0]
          [] n = "4294967297" -> [q |-> 2, r |-> 1]
          [] n = "-2147483649" -> [q |-> -2, r |-> 2147483647]]

\* int32(i) of an int: its low 32 bits, bit 31 being the sign.
Int32(i) == IF i.q % 2 = 0 THEN i.r ELSE (i.r - 2147483647) - 1

\* strconv.Itoa / fmt's %v of an int32: its decimal numeral.
Itoa(v) ==
    CHOOSE n \in DOMAIN Atoi :
        Atoi[n] = IF v < 0 THEN [q |-> -1, r |-> (v + 2147483647) + 1]
                  ELSE [q |-> 0, r |-> v]

\* A property value (Go's any): a string, an int32 or a bool.
StringValue(t) == [kind |-> "string", s |-> t]
IntValue(i) == [kind |-> "int", i |-> i]
BoolValue(b) == [kind |-> "bool", b |-> b]

\* fmt.Sprintf("%v", v) of a property value: a string prints as itself, an
\* int32 as its decimal numeral, a bool as true or false.
Sprint(v) ==
    CASE v.kind = "string" -> v.s
      [] v.kind = "int" -> <<Itoa(v.i)>>
      [] v.kind = "bool" -> IF v.b THEN <<"true">> ELSE <<"false">>

\* The property keys of the model in the order sort.Strings gives them.
KeyOrder == << <<>>, <<"facing">>, <<"level">>, <<"lit">> >>

\* sort.Strings over the key set ks.
SortKeys(ks) ==
    LET F[i \in 0..Len(KeyOrder)] ==
            IF i = 0 THEN <<>>
            ELSE IF KeyOrder[i] \in ks THEN Append(F[i - 1], KeyOrder[i])
                 ELSE F[i - 1]
    IN  F[Len(KeyOrder)]

\* base.BlockState: a name and a property map.
BlockState(name, props) == [Name |-> name, Properties |-> props]

\* (*BlockState).Clone: a copy with the same name and property entries.
Clone(b) == [Name |-> b.Name, Properties |-> [k \in DOMAIN b.Properties |-> b.Properties[k]]]

\* strings.Join(parts, ",") over "k=v" parts, keys a sequence of keys.
RECURSIVE JoinProps(_, _)
JoinProps(keys, props) ==
    IF keys = <<>> THEN <<>>
    ELSE keys[1] \o <<"=">> \o Sprint(props[keys[1]])
         \o (IF Len(keys) > 1 THEN <<",">> ELSE <<>>)
         \o JoinProps(Tail(keys), props)

\* (*BlockState).String: the canonical string, name[k1=v1,k2=v2] with the
\* keys sorted, or the bare name when there are no properties.
String(b) ==
    IF DOMAIN b.Properties = {} THEN b.Name
    ELSE b.Name \o <<"[">> \o JoinProps(SortKeys(DOMAIN b.Properties), b.Properties) \o <<"]">>

\* The typing of one property value in ParseBlockState.
ParseValue(value) ==
    IF value = <<"true">> THEN BoolValue(TRUE)
    ELSE IF value = <<"false">> THEN BoolValue(FALSE)
    ELSE IF Len(value) = 1 /\ value[1] \in DOMAIN Atoi
         THEN IntValue(Int32(Atoi[value[1]]))
         ELSE StringValue(value)

\* The loop of ParseBlockState over the parts: a part without "=" is
\* skipped, a later part with the same key overwrites an earlier one.
RECURSIVE ParseParts(_, _)
ParseParts(parts, acc) ==
    IF parts = <<>> THEN acc
    ELSE LET c == Cut(parts[1], "=")
             next == IF c.found
                     THEN [k \in DOMAIN acc \cup {c.before} |->
                              IF k = c.before THEN ParseValue(c.after) ELSE acc[k]]
                     ELSE acc
         IN  ParseParts(Tail(parts), next)

\* base.ParseBlockState.
ParseBlockState(s) ==
    LET c == Cut(s, "[")
    IN  IF c.after = <<>> THEN BlockState(c.before, EmptyMap)
        ELSE BlockState(c.before, ParseParts(Split(TrimSuffix(c.after, "]"), ","), EmptyMap))

\* isAirBlock that knows minecraft:air only.
isAirBlockOnlyAir(name) == name = <<"minecraft:air">>

\* isAirBlock (litematica): the names of the air variants.
isAirBlock(name) ==
    name \in {<<>>, <<"minecraft:air">>, <<"minecraft:void_air">>, <<"minecraft:cave_air">>}

---------------------------------------------------------------------------
(* The uniform model: base.SchematicImpl and base.BlockEntity.             *)

\* A Go nil pointer to a BlockState.
Nil == [nil |-> TRUE]
\* A Go nil pointer to a BlockEntity; the references of heap are 1, 2, ...
NilRef == 0

\* m with the entry for key k removed (Go's delete(m, k)).
MapDelete(m, k) == [j \in DOMAIN m \ {k} |-> m[j]]
\* m with m[k] = v.
MapPut(m, k, v) == [j \in DOMAIN m \cup {k} |-> IF j = k THEN v ELSE m[j]]

\* base.New: the schematic after construction.
New(width, height, length, formatID) ==
    [width |-> width, height |-> height, length |-> length,
     offsetX |-> 0, offsetY |-> 0, offsetZ |-> 0,
     blocks |-> EmptyMap, blockEntities |-> EmptyMap,
     formatID |-> formatID, dataVersion |-> 0]

\* (*SchematicImpl).index with the mutant used to test the index claim.
indexNoLength(s, x, y, z) == x + z * s.width + y * s.width
index(s, x, y, z) == x + z * s.width + y * s.width * s.length

\* The bounds test with the upper bounds left out.
OutOfBoundsLowerOnly(s, x, y, z) == x < 0 \/ y < 0 \/ z < 0

\* The bounds test that opens Block, SetBlock, BlockEntity, SetBlockEntity.
OutOfBounds(s, x, y, z) ==
    x < 0 \/ x >= s.width \/ y < 0 \/ y >= s.height \/ z < 0 \/ z >= s.length

\* (*SchematicImpl).Block.
Block(s, x, y, z) ==
    IF OutOfBounds(s, x, y, z) THEN Nil
    ELSE Field(s.blocks, index(s, x, y, z), Nil)

\* (*SchematicImpl).SetBlock: the schematic after the call.
SetBlock(s, x, y, z, block) ==
    IF OutOfBounds(s, x, y, z) THEN s
    ELSE LET idx == index(s, x, y, z)
         IN  IF block = Nil
             THEN [s EXCEPT !.blocks = MapDelete(@, idx)]
             ELSE [s EXCEPT !.blocks = MapPut(@, idx, block)]

\* (*SchematicImpl).BlockEntity: the reference stored, or NilRef.
BlockEntity(s, x, y, z) ==
    IF OutOfBounds(s, x, y, z) THEN NilRef
    ELSE Field(s.blockEntities, index(s, x, y, z), NilRef)

\* (*SchematicImpl).SetBlockEntity: the schematic and the heap after the
\* call; the object be points to gets the coordinates written into it and
\* the pointer itself is stored.
SetBlockEntity(s, h, x, y, z, be) ==
    IF OutOfBounds(s, x, y, z) THEN [s |-> s, heap |-> h]
    ELSE LET idx == index(s, x, y, z)
         IN  IF be = NilRef
             THEN [s |-> [s EXCEPT !.blockEntities = MapDelete(@, idx)], heap |-> h]
             ELSE [s |-> [s EXCEPT !.blockEntities = MapPut(@, idx, be)],
                   heap |-> [h EXCEPT ![be].X = x, ![be].Y = y, ![be].Z = z]]

\* (*SchematicImpl).SetOffset.
SetOffset(s, x, y, z) == [s EXCEPT !.offsetX = x, !.offsetY = y, !.offsetZ = z]

\* (*SchematicImpl).SetDataVersion.
SetDataVersion(s, version) == [s EXCEPT !.dataVersion = version]

\* base.BlockEntity: a fresh object.
NewBlockEntity(id, x, y, z, data) == [ID |-> id, X |-> x, Y |-> y, Z |-> z, Data |-> data]

---------------------------------------------------------------------------
(* The block palette (palette.go).  A palette is its block list and its    *)
(* key-to-index map; indices count from 0 as in the source, so the block   *)
(* with index i is blocks[i + 1].                                          *)

\* The "k=v" parts of blockStateKey for the sorted keys, separated by ",";
\* the type switch over the value prints a string as itself, an integer
\* with fmt.Sprint and a bool with strconv.FormatBool.
RECURSIVE keyParts(_, _)
keyParts(keys, props) ==
    IF keys = <<>> THEN <<>>
    ELSE LET v == props[keys[1]]
             text == CASE v.kind = "string" -> v.s
                       [] v.kind = "int" -> <<Itoa(v.i)>>
                       [] v.kind = "bool" -> IF v.b THEN <<"true">> ELSE <<"false">>
         IN  keys[1] \o <<"=">> \o text
             \o (IF Len(keys) > 1 THEN <<",">> ELSE <<>>)
             \o keyParts(Tail(keys), props)

\* blockStateKey: the palette key of a block state.
blockStateKey(block) ==
    IF block = Nil THEN <<>>
    ELSE IF Cardinality(DOMAIN block.Properties) = 0 THEN block.Name
    ELSE block.Name \o <<"[">>
         \o keyParts(SortKeys(DOMAIN block.Properties), block.Properties)
         \o <<"]">>

\* base.NewPalette.
NewPalette == [blocks |-> <<>>, index |-> EmptyMap]

\* Add without the lookup of the key: every call appends.
AddAlwaysAppends(p, block) ==
    [palette |-> [blocks |-> Append(p.blocks, block),
                  index |-> MapPut(p.index, blockStateKey(block), Len(p.blocks))],
     idx |-> Len(p.blocks)]

\* (*Palette).Add: the palette after the call and the index returned.
Add(p, block) ==
    LET key == blockStateKey(block)
    IN  IF key \in DOMAIN p.index
        THEN [palette |-> p, idx |-> p.index[key]]
        ELSE [palette |-> [blocks |-> Append(p.blocks, block),
                           index |-> MapPut(p.index, key, Len(p.blocks))],
              idx |-> Len(p.blocks)]

\* base.NewPaletteWithAir: minecraft:air at index 0.
NewPaletteWithAir == Add(NewPalette, BlockState(<<"minecraft:air">>, EmptyMap)).palette

\* (*Palette).Get: the block at idx, nil outside the list.
Get(p, idx) ==
    IF idx < 0 \/ idx >= Len(p.blocks) THEN Nil ELSE p.blocks[idx + 1]

\* (*Palette).Size.
Size(p) == Len(p.blocks)

\* (*Palette).Blocks.
Blocks(p) == p.blocks

\* The coordinate visited at step i (from 0) of the loops
\* for y { for z { for x { idx := x + z*width + y*width*length } } },
\* where idx = i.
CellAt(width, length, i) == <<i % width, i \div (width * length), (i \div width) % length>>

\* The palette-building loop that opens every writer: the palette and the
\* block indices in idx order; a nil block is index 0.
buildBlockIndices(s) ==
    LET n == s.width * s.height * s.length
        F[i \in 0..n] ==
            IF i = 0 THEN [palette |-> NewPaletteWithAir, blockIndices |-> <<>>]
            ELSE LET c == CellAt(s.width, s.length, i - 1)
                     block == Block(s, c[1], c[2], c[3])
                     prev == F[i - 1]
                 IN  IF block = Nil
                     THEN [palette |-> prev.palette,
                           blockIndices |-> Append(prev.blockIndices, 0)]
                     ELSE LET a == Add(prev.palette, block)
                          IN  [palette |-> a.palette,
                               blockIndices |-> Append(prev.blockIndices, a.idx)]
    IN  F[n]

\* The palette map of the Sponge writers: for i, block := range Blocks()
\* { paletteMap[block.String()] = int32(i) }; a later block with the same
\* string overwrites an earlier one.
paletteMap(p) ==
    LET bs == Blocks(p)
    IN  [t \in {String(bs[i]) : i \in 1..Len(bs)} |->
            (CHOOSE i \in 1..Len(bs) :
                /\ String(bs[i]) = t
                /\ \A j \in (i + 1)..Len(bs) : String(bs[j]) # t) - 1]

---------------------------------------------------------------------------
(* VarInts (varint.go).  A byte is an integer in 0..255; on a non-negative *)
(* int, & 0x7F is % 128 and >> 7 is \div 128, and an |= of bits that are   *)
(* all clear is an addition.                                               *)

\* EncodeVarInt with the value shifted by 8 bits where the code shifts by 7.
RECURSIVE EncodeVarIntShift8(_)
EncodeVarIntShift8(value) ==
    LET b == value % 128
        rest == value \div 256
    IN  IF rest # 0 THEN <<b + 128>> \o EncodeVarIntShift8(rest) ELSE <<b>>

\* base.EncodeVarInt, for value >= 0.
RECURSIVE EncodeVarInt(_)
EncodeVarInt(value) ==
    LET b == value % 128
        rest == value \div 128
    IN  IF rest # 0 THEN <<b + 128>> \o EncodeVarInt(rest) ELSE <<b>>

\* base.EncodeVarIntArray.
RECURSIVE EncodeVarIntArray(_)
EncodeVarIntArray(values) ==
    IF values = <<>> THEN <<>>
    ELSE EncodeVarInt(values[1]) \o EncodeVarIntArray(Tail(values))

\* The loop of base.DecodeVarInt entered with value and length.
RECURSIVE decodeVarIntLoop(_, _, _)
decodeVarIntLoop(data, value, length) ==
    IF length >= Len(data) THEN [err |-> "varint extends beyond data"]
    ELSE LET b == data[length + 1]
             v == value + (b % 128) * 2^(length * 7)
         IN  IF length + 1 > 5 THEN [err |-> "varint too long"]
             ELSE IF b \div 128 = 0 THEN [value |-> v, length |-> length + 1]
             ELSE decodeVarIntLoop(data, v, length + 1)

\* base.DecodeVarInt: the value and the number of bytes read, or an error.
DecodeVarInt(data) == decodeVarIntLoop(data, 0, 0)

\* base.DecodeVarIntArray: the values, or an error.
DecodeVarIntArray(data, count) ==
    LET F[i \in 0..count] ==
            IF i = 0 THEN [values |-> <<>>, offset |-> 0]
            ELSE LET prev == F[i - 1]
                 IN  IF "err" \in DOMAIN prev THEN prev
                     ELSE LET d == DecodeVarInt(SubSeq(data, prev.offset + 1, Len(data)))
                          IN  IF "err" \in DOMAIN d THEN [err |-> "decode varint"]
                              ELSE [values |-> Append(prev.values, d.value),
                                    offset |-> prev.offset + d.length]
    IN  F[count]

---------------------------------------------------------------------------
(* The Sponge codecs (sponge package).  A file is the first bytes that     *)
(* Detect looks at (head) and the NBT tree under the gzip layer (root).    *)
(* A reader returns [s |-> schematic] or [err |-> message], or ends in a   *)
(* runtime fault, [panic |-> message].                                     *)

\* The palette slice of ReadV1 and ReadV2: PaletteMax + 1 entries, the
\* entry at idx parsed from the name the map gives idx, nil when no name
\* has it.  (The files of the model give an index to at most one name.)
paletteSlice(m, size) ==
    [i \in 1..size |->
        IF \E name \in DOMAIN m : m[name] = i - 1
        THEN ParseBlockState(CHOOSE name \in DOMAIN m : m[name] = i - 1)
        ELSE Nil]

\* The runtime fault of the "Build palette" loop, "" for none: make with a
\* negative length panics, and so does palette[idx] for a negative idx,
\* which the test int(idx) < len(palette) lets through.
paletteFault(m, size) ==
    IF size < 0 THEN "makeslice: len out of range"
    ELSE IF \E name \in DOMAIN m : m[name] < 0 THEN "index out of range"
    ELSE ""

\* The palette slice of ReadV3: len(map) entries, grown to hold every id.
paletteSliceV3(m) ==
    LET ids == {m[name] : name \in DOMAIN m}
        top == IF ids = {} THEN 0 ELSE (CHOOSE i \in ids : \A j \in ids : j <= i) + 1
    IN  paletteSlice(m, Max(Cardinality(DOMAIN m), top))

\* The "Set blocks" loop of the Sponge readers: every cell whose palette
\* index is in range and whose palette entry is not nil gets a clone of the
\* entry through SetBlock.
setBlocks(s, palette, blockIndices) ==
    LET n == s.width * s.height * s.length
        F[i \in 0..n] ==
            IF i = 0 THEN s
            ELSE LET c == CellAt(s.width, s.length, i - 1)
                     idx == i - 1
                     prev == F[i - 1]
                 IN  IF idx >= Len(blockIndices) THEN prev
                     ELSE LET paletteIdx == blockIndices[idx + 1]
                          IN  IF /\ paletteIdx >= 0
                                 /\ paletteIdx < Len(palette)
                                 /\ palette[paletteIdx + 1] # Nil
                              THEN SetBlock(prev, c[1], c[2], c[3],
                                            Clone(palette[paletteIdx + 1]))
                              ELSE prev
    IN  F[n]

\* The offset a Sponge reader sets: SetOffset when the file has at least
\* three Offset entries.
readOffset(s, data) ==
    LET Offset == Field(data, "Offset", <<>>)
    IN  IF Len(Offset) >= 3 THEN SetOffset(s, Offset[1], Offset[2], Offset[3]) ELSE s

\* A value held under an interface type in an NBT compound (map[string]any):
\* a Go string is written as a string tag and read back as a string; a Go
\* []int32 is written as a list of int tags and read back as a []any of
\* int32.
NBTString(v) == [kind |-> "string", s |-> v]
NBTList(v) == [kind |-> "list", l |-> v]
\* The Go value a decoder gives for a value of the two kinds.
NBTValue(t) == IF t.kind = "string" THEN t.s ELSE t.l

\* maps.Copy(dst, src): every entry of src is put into dst, over an entry
\* dst already has for the key.  The values of a block entity's Data are
\* Go strings.
mapsCopy(dst, src) ==
    [k \in DOMAIN dst \cup DOMAIN src |->
        IF k \in DOMAIN src THEN NBTString(src[k]) ELSE dst[k]]

\* The "Encode block entities" loop of the Sponge writers: one record for
\* every coordinate that has a block entity, in idx order, with Pos and Id
\* set first and the entity's Data copied over them.
encodeBlockEntities(s, h) ==
    LET n == s.width * s.height * s.length
        F[i \in 0..n] ==
            IF i = 0 THEN <<>>
            ELSE LET c == CellAt(s.width, s.length, i - 1)
                     be == BlockEntity(s, c[1], c[2], c[3])
                     prev == F[i - 1]
                 IN  IF be = NilRef THEN prev
                     ELSE Append(prev,
                            mapsCopy([Pos |-> NBTList(<<c[1], c[2], c[3]>>),
                                      Id |-> NBTString(h[be].ID)],
                                     h[be].Data))
    IN  F[n]

\* The object a Sponge reader builds from one block-entity record: the
\* position when Pos is a list of at least three entries, the id when Id is
\* a string, and every other key in Data.
decodeBlockEntity(beData) ==
    LET posOk == /\ "Pos" \in DOMAIN beData
                 /\ beData["Pos"].kind = "list"
                 /\ Len(beData["Pos"].l) >= 3
        idOk == "Id" \in DOMAIN beData /\ beData["Id"].kind = "string"
    IN  NewBlockEntity(IF idOk THEN beData["Id"].s ELSE "",
                       IF posOk THEN beData["Pos"].l[1] ELSE 0,
                       IF posOk THEN beData["Pos"].l[2] ELSE 0,
                       IF posOk THEN beData["Pos"].l[3] ELSE 0,
                       [k \in DOMAIN beData \ {"Pos", "Id"} |-> NBTValue(beData[k])])

\* The "Set block entities" loop of the Sponge readers: every record
\* becomes a fresh object that is stored with SetBlockEntity at the
\* position read.  The result is the schematic and the objects created.
RECURSIVE readBlockEntities(_, _, _)
readBlockEntities(s, h, records) ==
    IF records = <<>> THEN [s |-> s, heap |-> h]
    ELSE LET be == decodeBlockEntity(records[1])
             h1 == Append(h, be)
             r == SetBlockEntity(s, h1, be.X, be.Y, be.Z, Len(h1))
         IN  readBlockEntities(r.s, r.heap, Tail(records))

\* The key of the block-entity list in the flat root.
entitiesKey(version) == IF version = 1 THEN "TileEntities" ELSE "BlockEntities"

\* A struct field tagged omitempty: absent when the list is empty.
omitEmpty(key, records) ==
    IF records = <<>> THEN EmptyMap ELSE [k \in {key} |-> records]

\* The body shared by ReadV1 and ReadV2 after the NBT is decoded into the
\* flat struct: the version check, the dimension check, New, the offset,
\* the palette, the VarInt block data, the blocks and the block entities.
readFlat(data, version, formatID) ==
    LET width == Field(data, "Width", 0)
        height == Field(data, "Height", 0)
        length == Field(data, "Length", 0)
    IN  IF Field(data, "Version", 0) # version THEN [err |-> "expected version"]
        ELSE IF width <= 0 \/ height <= 0 \/ length <= 0 THEN [err |-> "invalid dimensions"]
        ELSE LET s0 == SetDataVersion(New(width, height, length, formatID),
                                      Field(data, "DataVersion", 0))
                 s1 == readOffset(s0, data)
                 fault == paletteFault(Field(data, "Palette", EmptyMap),
                                       Field(data, "PaletteMax", 0) + 1)
                 palette == paletteSlice(Field(data, "Palette", EmptyMap),
                                         Field(data, "PaletteMax", 0) + 1)
                 blockIndices == DecodeVarIntArray(Field(data, "BlockData", <<>>),
                                                   width * height * length)
             IN  IF fault # "" THEN [panic |-> fault]
                 ELSE IF "err" \in DOMAIN blockIndices THEN [err |-> "decode block data"]
                 ELSE readBlockEntities(setBlocks(s1, palette, blockIndices.values), <<>>,
                                        Field(data, entitiesKey(version), <<>>))

\* sponge.ReadV1: decodes the root compound itself into v1NBT.
ReadV1(f) ==
    IF f.head # "gzip" THEN [err |-> "gzip decompress"]
    ELSE readFlat(f.root, 1, "sponge_v1")

\* sponge.ReadV2: decodes the root compound itself into v2NBT.
ReadV2(f) ==
    IF f.head # "gzip" THEN [err |-> "gzip decompress"]
    ELSE readFlat(f.root, 2, "sponge_v2")

\* sponge.ReadV3: decodes the child "Schematic" of the root into v3NBT.
ReadV3(f) ==
    IF f.head # "gzip" THEN [err |-> "gzip decompress"]
    ELSE LET data == Field(f.root, "Schematic", EmptyMap)
             width == Field(data, "Width", 0)
             height == Field(data, "Height", 0)
             length == Field(data, "Length", 0)
             blocks == Field(data, "Blocks", EmptyMap)
         IN  IF Field(data, "Version", 0) # 3 THEN [err |-> "expected version"]
             ELSE IF width <= 0 \/ height <= 0 \/ length <= 0
                  THEN [err |-> "invalid dimensions"]
             ELSE LET s0 == SetDataVersion(New(width, height, length, "sponge_v3"),
                                           Field(data, "DataVersion", 0))
                      s1 == readOffset(s0, data)
                      blockIndices == DecodeVarIntArray(Field(blocks, "Data", <<>>),
                                                        width * height * length)
                      fault == paletteFault(Field(blocks, "Palette", EmptyMap), 0)
                      palette == paletteSliceV3(Field(blocks, "Palette", EmptyMap))
                  IN  IF "err" \in DOMAIN blockIndices THEN [err |-> "decode block data"]
                      ELSE IF fault # "" THEN [panic |-> fault]
                      ELSE readBlockEntities(setBlocks(s1, palette, blockIndices.values),
                                             <<>>, Field(blocks, "BlockEntities", <<>>))

\* The v1NBT / v2NBT value the writers build.
flatNBT(s, h, version) ==
    LET b == buildBlockIndices(s)
    IN  omitEmpty(entitiesKey(version), encodeBlockEntities(s, h)) @@
        [Version |-> version,
         DataVersion |-> s.dataVersion,
         Width |-> ToInt16(s.width),
         Height |-> ToInt16(s.height),
         Length |-> ToInt16(s.length),
         Offset |-> <<s.offsetX, s.offsetY, s.offsetZ>>,
         PaletteMax |-> Size(b.palette) - 1,
         Palette |-> paletteMap(b.palette),
         BlockData |-> EncodeVarIntArray(b.blockIndices)]

\* sponge.WriteV1: the v1NBT value wrapped in a root struct under the key
\* "Schematic".
WriteV1(s, h) == [head |-> "gzip", root |-> [Schematic |-> flatNBT(s, h, 1)]]

\* sponge.WriteV2: the v2NBT value is the root.
WriteV2(s, h) == [head |-> "gzip", root |-> flatNBT(s, h, 2)]

\* sponge.WriteV3: the v3NBT value wrapped under the key "Schematic".
WriteV3(s, h) ==
    LET b == buildBlockIndices(s)
    IN  [head |-> "gzip",
         root |-> [Schematic |->
            [Version |-> 3,
             DataVersion |-> s.dataVersion,
             Width |-> ToInt16(s.width),
             Height |-> ToInt16(s.height),
             Length |-> ToInt16(s.length),
             Offset |-> <<s.offsetX, s.offsetY, s.offsetZ>>,
             Blocks |-> omitEmpty("BlockEntities", encodeBlockEntities(s, h)) @@
                        [Palette |-> paletteMap(b.palette),
                         Data |-> EncodeVarIntArray(b.blockIndices)]]]]

---------------------------------------------------------------------------
(* Long arrays and tight packing (packing.go).  An int64 is the set of the *)
(* positions 0..63 of its one bits, so that |, &, << and >> keep their     *)
(* 64-bit meaning; a Go int that holds a palette index or a mask is an     *)
(* integer of the model.                                                   *)

\* int64(v) of an int v: two's complement, the sign carried up to bit 63.
Int64(v) ==
    {i \in 0..30 : (v \div 2^i) % 2 = 1} \cup (IF v < 0 THEN 31..63 ELSE {})

\* int(l) of an int64 whose one bits all lie below bit 31.
RECURSIVE ToInt(_)
ToInt(l) ==
    IF l = {} THEN 0
    ELSE LET i == CHOOSE j \in l : TRUE IN 2^i + ToInt(l \ {i})

\* l << n and l >> n on an int64 (>> is arithmetic: bit 63 is copied down).
ShiftLeft(l, n) == {i + n : i \in l} \cap (0..63)
ShiftRight(l, n) == {j \in 0..63 : IF j + n <= 63 THEN (j + n) \in l ELSE 63 \in l}

\* int64((1 << n) - 1): the n low bits.
Mask(n) == 0..(n - 1)

\* math/bits.Len(uint(v)): the number of bits needed for v, 64 for the
\* negative v that uint() wraps to the top of the range.
bitsLen(v) ==
    IF v < 0 THEN 64
    ELSE IF v = 0 THEN 0
    ELSE (CHOOSE n \in 1..31 : 2^(n - 1) <= v /\ (n = 31 \/ v < 2^n))

\* The bits per entry of ReadV6 and WriteV6, from the palette size less
\* one, and of litematica.Read and litematica.Write, from the palette size.
bitsPerEntryV6(paletteSize) == Max(bitsLen(paletteSize - 1), 2)
bitsPerEntryLegacy(paletteSize) == Max(bitsLen(paletteSize), 2)

\* base.PackLongArray: values never cross a long; nil (the empty array)
\* when bitsPerEntry is 0.
PackLongArray(values, bitsPerEntry) ==
    IF bitsPerEntry = 0 THEN <<>>
    ELSE LET valuesPerLong == 64 \div bitsPerEntry
             longCount == (Len(values) + valuesPerLong - 1) \div valuesPerLong
             F[i \in 0..Len(values)] ==
                 IF i = 0 THEN [k \in 1..longCount |-> {}]
                 ELSE LET val == values[i]
                          longIdx == (i - 1) \div valuesPerLong
                          bitIdx == ((i - 1) % valuesPerLong) * bitsPerEntry
                          longs == F[i - 1]
                      IN  [longs EXCEPT ![longIdx + 1] =
                              @ \cup ShiftLeft(Int64(val), bitIdx)]
         IN  F[Len(values)]

\* base.UnpackLongArray: count values, zero where the longs run out.
UnpackLongArray(longs, bitsPerEntry, count) ==
    IF bitsPerEntry = 0 \/ Len(longs) = 0 THEN [i \in 1..count |-> 0]
    ELSE LET valuesPerLong == 64 \div bitsPerEntry
         IN  [i \in 1..count |->
                LET longIdx == (i - 1) \div valuesPerLong
                    bitIdx == ((i - 1) % valuesPerLong) * bitsPerEntry
                IN  IF longIdx < Len(longs)
                    THEN ToInt(ShiftRight(longs[longIdx + 1], bitIdx) \cap Mask(bitsPerEntry))
                    ELSE 0]

\* base.PackLongArrayTight; nil (the empty array) when bitsPerEntry is 0.
PackLongArrayTight(values, bitsPerEntry) ==
    IF bitsPerEntry = 0 THEN <<>>
    ELSE LET totalBits == Len(values) * bitsPerEntry
             longCount == (totalBits + 63) \div 64
             F[i \in 0..Len(values)] ==
                 IF i = 0 THEN [k \in 1..longCount |-> {}]
                 ELSE LET val == values[i]
                          bitPos == (i - 1) * bitsPerEntry
                          longIdx == bitPos \div 64
                          bitOffset == bitPos % 64
                          bitsInFirstLong == 64 - bitOffset
                          longs == F[i - 1]
                      IN  IF bitsInFirstLong >= bitsPerEntry
                          THEN [longs EXCEPT ![longIdx + 1] =
                                    @ \cup ShiftLeft(Int64(val), bitOffset)]
                          ELSE LET first == [longs EXCEPT ![longIdx + 1] =
                                        @ \cup ShiftLeft(Int64(val) \cap Mask(bitsInFirstLong),
                                                         bitOffset)]
                                   bitsInSecondLong == bitsPerEntry - bitsInFirstLong
                               IN  IF longIdx + 1 < Len(longs)
                                   THEN [first EXCEPT ![longIdx + 2] =
                                            @ \cup (ShiftRight(Int64(val), bitsInFirstLong)
                                                    \cap Mask(bitsInSecondLong))]
                                   ELSE first
         IN  F[Len(values)]

\* UnpackLongArrayTight without the bits a value has in the second long.
UnpackLongArrayTightFirstLong(longs, bitsPerEntry, count) ==
    IF bitsPerEntry = 0 \/ Len(longs) = 0 THEN [i \in 1..count |-> 0]
    ELSE [i \in 1..count |->
            LET bitPos == (i - 1) * bitsPerEntry
                longIdx == bitPos \div 64
                bitOffset == bitPos % 64
            IN  IF longIdx >= Len(longs) THEN 0
                ELSE ToInt(ShiftRight(longs[longIdx + 1], bitOffset)
                           \cap Mask(Min(bitsPerEntry, 64 - bitOffset)))]

\* base.UnpackLongArrayTight: count values, zero where the longs run out.
UnpackLongArrayTight(longs, bitsPerEntry, count) ==
    IF bitsPerEntry = 0 \/ Len(longs) = 0 THEN [i \in 1..count |-> 0]
    ELSE [i \in 1..count |->
            LET bitPos == (i - 1) * bitsPerEntry
                longIdx == bitPos \div 64
                bitOffset == bitPos % 64
                bitsInFirstLong == 64 - bitOffset
            IN  IF longIdx >= Len(longs) THEN 0
                ELSE IF bitsInFirstLong >= bitsPerEntry
                THEN ToInt(ShiftRight(longs[longIdx + 1], bitOffset) \cap Mask(bitsPerEntry))
                ELSE LET val == ToInt(ShiftRight(longs[longIdx + 1], bitOffset)
                                      \cap Mask(bitsInFirstLong))
                         bitsInSecondLong == bitsPerEntry - bitsInFirstLong
                     IN  IF longIdx + 1 < Len(longs)
                         THEN ToInt(Int64(val) \cup
                                    ShiftLeft(longs[longIdx + 2] \cap Mask(bitsInSecondLong),
                                              bitsInFirstLong))
                         ELSE val]

---------------------------------------------------------------------------
(* VarInts on the full width of a Go int (varint.go), for the values that  *)
(* take bit 31 and above: the int is the set of the positions of its one   *)
(* bits, as an int64 is.                                                   *)

\* base.EncodeVarInt on a non-negative int given by its bits.
RECURSIVE EncodeVarIntWide(_)
EncodeVarIntWide(value) ==
    LET b == ToInt(value \cap Mask(7))
        rest == ShiftRight(value, 7)
    IN  IF rest # {} THEN <<b + 128>> \o EncodeVarIntWide(rest) ELSE <<b>>

\* The loop of base.DecodeVarInt entered with value and length, the value
\* given by its bits.
RECURSIVE decodeVarIntLoopWide(_, _, _)
decodeVarIntLoopWide(data, value, length) ==
    IF length >= Len(data) THEN [err |-> "varint extends beyond data"]
    ELSE LET b == data[length + 1]
             v == value \cup ShiftLeft(Int64(b % 128), length * 7)
         IN  IF length + 1 > 5 THEN [err |-> "varint too long"]
             ELSE IF b \div 128 = 0 THEN [value |-> v, length |-> length + 1]
             ELSE decodeVarIntLoopWide(data, v, length + 1)

\* base.DecodeVarInt, the value returned given by its bits.
DecodeVarIntWide(data) == decodeVarIntLoopWide(data, {}, 0)

\* The loop of base.ReadVarInt entered with value and shift, on a reader
\* that yields the bytes of data one by one and io.EOF after the last;
\* shift / 7 bytes have been read.  The value is given by its bits.
RECURSIVE readVarIntLoop(_, _, _)
readVarIntLoop(data, value, shift) ==
    IF shift \div 7 >= Len(data) THEN [err |-> "EOF"]
    ELSE LET b == data[shift \div 7 + 1]
             v == value \cup ShiftLeft(Int64(b % 128), shift)
         IN  IF b \div 128 = 0 THEN [value |-> v, length |-> shift \div 7 + 1]
             ELSE IF shift + 7 > 35 THEN [err |-> "varint too long"]
             ELSE readVarIntLoop(data, v, shift + 7)

\* base.ReadVarInt: the value and the number of bytes taken from the
\* reader, or an error.
ReadVarInt(data) == readVarIntLoop(data, {}, 0)

---------------------------------------------------------------------------
(* The Litematica codecs (litematica package): ReadV6 and WriteV6, and the *)
(* single-function reader Read that reads versions 6 and 7.  Go's range    *)
(* over the Regions map starts at an arbitrary entry, so a reader takes    *)
(* the name of the entry the range yields first.                           *)

\* math.MaxInt32 and math.MinInt32, the start values of the bounding box.
MaxInt32 == 2147483647
MinInt32 == -2147483647 - 1

\* The zero value of the Position and Size structs.
ZeroVec == [x |-> 0, y |-> 0, z |-> 0]

\* getOrigin with the test on the sign of size left out.
getOriginAlwaysShifted(pos, size) == pos + size + 1

\* litematica.getOrigin.
getOrigin(pos, size) == IF size >= 0 THEN pos ELSE pos + size + 1

\* The names a range over the Regions map can yield first; the loop leaves
\* regionName empty when the map is empty.
RegionChoices(f) ==
    LET Regions == Field(f.root, "Regions", EmptyMap)
    IN  IF DOMAIN Regions = {} THEN {""} ELSE DOMAIN Regions

\* The palette of a region: one BlockState per BlockStatePalette entry.
regionPalette(regionData) ==
    LET entries == Field(regionData, "BlockStatePalette", <<>>)
    IN  [i \in 1..Len(entries) |->
            BlockState(Field(entries[i], "Name", <<>>),
                       Field(entries[i], "Properties", EmptyMap))]

\* The scan of the decoded region that collects the placements of the
\* non-air blocks and their bounding box.
cropScan(blockIndices, palette, regWidth, regHeight, regLength) ==
    LET n == regWidth * regHeight * regLength
        F[i \in 0..n] ==
            IF i = 0
            THEN [placements |-> <<>>, hasContent |-> FALSE,
                  minX |-> MaxInt32, minY |-> MaxInt32, minZ |-> MaxInt32,
                  maxX |-> MinInt32, maxY |-> MinInt32, maxZ |-> MinInt32]
            ELSE LET c == CellAt(regWidth, regLength, i - 1)
                     idx == i - 1
                     a == F[i - 1]
                 IN  IF idx >= Len(blockIndices) THEN a
                     ELSE LET paletteIdx == blockIndices[idx + 1]
                          IN  IF paletteIdx < 0 \/ paletteIdx >= Len(palette) THEN a
                              ELSE LET block == palette[paletteIdx + 1]
                                   IN  IF block = Nil \/ isAirBlock(block.Name) THEN a
                                       ELSE [placements |->
                                                Append(a.placements,
                                                       [X |-> c[1], Y |-> c[2], Z |-> c[3],
                                                        Block |-> Clone(block)]),
                                             hasContent |-> TRUE,
                                             minX |-> Min(a.minX, c[1]),
                                             minY |-> Min(a.minY, c[2]),
                                             minZ |-> Min(a.minZ, c[3]),
                                             maxX |-> Max(a.maxX, c[1]),
                                             maxY |-> Max(a.maxY, c[2]),
                                             maxZ |-> Max(a.maxZ, c[3])]
    IN  F[n]

\* The "Set blocks" loop of the Litematica readers: every placement is
\* stored at its position relative to the minimum corner.
RECURSIVE setPlacements(_, _, _, _, _)
setPlacements(s, placements, minX, minY, minZ) ==
    IF placements = <<>> THEN s
    ELSE LET p == placements[1]
         IN  setPlacements(SetBlock(s, p.X - minX, p.Y - minY, p.Z - minZ, p.Block),
                           Tail(placements), minX, minY, minZ)

\* The part the two readers share once the region, the bits per entry, the
\* origin and the format id are known: unpack, scan, crop, New, SetOffset
\* and the blocks.
readRegion(data, regionData, bitsPerEntry, origin, formatID) ==
    LET size == Field(regionData, "Size", ZeroVec)
        palette == regionPalette(regionData)
        regWidth == Abs(size.x)
        regHeight == Abs(size.y)
        regLength == Abs(size.z)
        blockCount == regWidth * regHeight * regLength
        blockIndices == UnpackLongArrayTight(Field(regionData, "BlockStates", <<>>),
                                             bitsPerEntry, blockCount)
        scan == cropScan(blockIndices, palette, regWidth, regHeight, regLength)
        width == IF scan.hasContent THEN scan.maxX - scan.minX + 1 ELSE regWidth
        height == IF scan.hasContent THEN scan.maxY - scan.minY + 1 ELSE regHeight
        length == IF scan.hasContent THEN scan.maxZ - scan.minZ + 1 ELSE regLength
        minX == IF scan.hasContent THEN scan.minX ELSE 0
        minY == IF scan.hasContent THEN scan.minY ELSE 0
        minZ == IF scan.hasContent THEN scan.minZ ELSE 0
        s0 == SetDataVersion(New(width, height, length, formatID),
                             Field(data, "MinecraftDataVersion", 0))
        s1 == SetOffset(s0, origin.x + minX, origin.y + minY, origin.z + minZ)
    IN  [s |-> setPlacements(s1, scan.placements, minX, minY, minZ)]

\* litematica.ReadV6, the range over Regions yielding regionName first.
ReadV6(f, regionName) ==
    IF f.head # "gzip" THEN [err |-> "gzip decompress"]
    ELSE IF Field(f.root, "Version", 0) # 6 THEN [err |-> "expected version 6"]
    ELSE IF regionName = "" THEN [err |-> "no regions found in litematica file"]
    ELSE LET regionData == f.root.Regions[regionName]
             Position == Field(regionData, "Position", ZeroVec)
             size == Field(regionData, "Size", ZeroVec)
             origin == [x |-> getOrigin(Position.x, size.x),
                        y |-> getOrigin(Position.y, size.y),
                        z |-> getOrigin(Position.z, size.z)]
             bitsPerEntry == bitsPerEntryV6(Len(regionPalette(regionData)))
         IN  readRegion(f.root, regionData, bitsPerEntry, origin, "litematica_v6")

\* litematica.Read (versions 6 and 7 in one function): the bits per entry
\* come from the palette length itself and the offset is counted from
\* Position.
litematicaRead(f, regionName) ==
    IF f.head # "gzip" THEN [err |-> "gzip decompress"]
    ELSE IF Field(f.root, "Version", 0) \notin {6, 7}
         THEN [err |-> "unsupported litematica version"]
    ELSE IF regionName = "" THEN [err |-> "no regions found in litematica file"]
    ELSE LET regionData == f.root.Regions[regionName]
             Position == Field(regionData, "Position", ZeroVec)
             bitsPerEntry == bitsPerEntryLegacy(Len(regionPalette(regionData)))
         IN  readRegion(f.root, regionData, bitsPerEntry, Position, "litematica")

\* The number of entries of blockIndices above 0 (TotalBlocks).
RECURSIVE totalBlocks(_)
totalBlocks(blockIndices) ==
    IF blockIndices = <<>> THEN 0
    ELSE (IF blockIndices[1] > 0 THEN 1 ELSE 0) + totalBlocks(Tail(blockIndices))

\* litematica.WriteV6: one region named "Region" whose Position is the
\* offset and whose Size is the dimensions.
WriteV6(s) ==
    LET b == buildBlockIndices(s)
        bitsPerEntry == bitsPerEntryV6(Size(b.palette))
        region ==
            [Position |-> [x |-> s.offsetX, y |-> s.offsetY, z |-> s.offsetZ],
             Size |-> [x |-> s.width, y |-> s.height, z |-> s.length],
             BlockStates |-> PackLongArrayTight(b.blockIndices, bitsPerEntry),
             BlockStatePalette |->
                [i \in 1..Size(b.palette) |->
                    [Name |-> Blocks(b.palette)[i].Name,
                     Properties |-> Blocks(b.palette)[i].Properties]],
             TileEntities |-> <<>>,
             Entities |-> <<>>]
    IN  [head |-> "gzip",
         root |-> [Version |-> 6,
                   MinecraftDataVersion |-> s.dataVersion,
                   Metadata |-> [RegionCount |-> 1,
                                 TotalBlocks |-> totalBlocks(b.blockIndices),
                                 TotalVolume |-> s.width * s.height * s.length,
                                 EnclosingSize |-> [x |-> s.width, y |-> s.height,
                                                    z |-> s.length]],
                   Regions |-> [Region |-> region]]]

\* A Go int32 and a Go int64 as the decoder gives them under an interface
\* type, and a []float64 whose entries are counted in halves.
Int32Value(v) == [kind |-> "int32", i32 |-> v]
Int64Value(v) == [kind |-> "int64", i64 |-> v]
Float64s(v) == [kind |-> "float64s", f |-> v]

\* raw[k].(int32): whether the assertion holds.
isInt32(raw, k) == k \in DOMAIN raw /\ raw[k].kind = "int32"

\* strings.ToLower of the keys of the model.
ToLower(k) ==
    CASE k = "X" -> "x" [] k = "Y" -> "y" [] k = "Z" -> "z"
      [] k = "Id" -> "id" [] k = "ID" -> "id" [] OTHER -> k

---------------------------------------------------------------------------
(* The MCEdit codec (mcedit package).  A key "<id>:<meta>" of the legacy   *)
(* table is the text of its three tokens.  Schematics hold no entities.    *)

\* A fragment of the static legacy table: air, stone, granite, bedrock and
\* two keys whose values are two spellings of one state.
legacyBlocks ==
    (<<"0", ":", "0">> :> <<"minecraft:air">>)
    @@ (<<"1", ":", "0">> :> <<"minecraft:stone">>)
    @@ (<<"1", ":", "1">> :> <<"minecraft:granite">>)
    @@ (<<"7", ":", "0">> :> <<"minecraft:bedrock">>)
    @@ (<<"53", ":", "0">> :>
            <<"minecraft:oak_stairs", "[", "lit", "=", "true", ",", "facing", "=", "north", "]">>)
    @@ (<<"53", ":", "1">> :>
            <<"minecraft:oak_stairs", "[", "facing", "=", "north", ",", "lit", "=", "true", "]">>)

\* byte(i) of an int: its low 8 bits.
ToByte(i) == i.r % 256

\* The assignments of init(): for every key of two parts that are both
\* numerals, the canonical string of the parsed value gets the two bytes.
reverseEntries ==
    {[key |-> String(ParseBlockState(legacyBlocks[k])),
      ID |-> ToByte(Atoi[Split(k, ":")[1][1]]),
      Data |-> ToByte(Atoi[Split(k, ":")[2][1]])] :
        k \in {j \in DOMAIN legacyBlocks :
                 /\ Len(Split(j, ":")) = 2
                 /\ \A i \in 1..2 : /\ Len(Split(j, ":")[i]) = 1
                                     /\ Split(j, ":")[i][1] \in DOMAIN Atoi}}

\* The maps init() can leave in reverseLegacyBlocks: the range over the
\* forward map has no fixed order, so a canonical string that two keys give
\* holds the bytes of either.
ReverseTables ==
    {rev \in [{e.key : e \in reverseEntries} -> reverseEntries] :
        \A c \in DOMAIN rev : rev[c].key = c}

\* fmt.Sprintf("%d:%d", id, meta) of two bytes.
legacyKey(id, meta) == <<Itoa(id), ":", Itoa(meta)>>

\* The loop of Read over TileEntities: every tag becomes a fresh object
\* with the x, y, z that are int32 (0 otherwise), the id that is a string
\* and every key that is none of x, y, z, id in any case in Data, stored
\* with SetBlockEntity at its position.
RECURSIVE readTileEntities(_, _, _)
readTileEntities(s, h, records) ==
    IF records = <<>> THEN [s |-> s, heap |-> h]
    ELSE LET te == records[1]
             at(k) == IF isInt32(te, k) THEN te[k].i32 ELSE 0
             be == NewBlockEntity(IF "id" \in DOMAIN te /\ te["id"].kind = "string"
                                  THEN te["id"].s ELSE "",
                                  at("x"), at("y"), at("z"),
                                  [k \in {j \in DOMAIN te :
                                             ToLower(j) \notin {"x", "y", "z", "id"}}
                                      |-> NBTValue(te[k])])
             h1 == Append(h, be)
             r == SetBlockEntity(s, h1, be.X, be.Y, be.Z, Len(h1))
         IN  readTileEntities(r.s, r.heap, Tail(records))

\* The "MCEdit format standard layout" loop of Read: a cell whose id:meta
\* or id:0 is in the table gets the parsed state, any other cell is
\* skipped.  (y*Length + z)*Width + x is the idx of CellAt.
setLegacyBlocks(s, Blks, Data) ==
    LET n == s.width * s.height * s.length
        F[i \in 0..n] ==
            IF i = 0 THEN s
            ELSE LET c == CellAt(s.width, s.length, i - 1)
                     prev == F[i - 1]
                     key == legacyKey(Blks[i], Data[i])
                     fallback == legacyKey(Blks[i], 0)
                 IN  IF key \in DOMAIN legacyBlocks
                     THEN SetBlock(prev, c[1], c[2], c[3], ParseBlockState(legacyBlocks[key]))
                     ELSE IF fallback \in DOMAIN legacyBlocks
                     THEN SetBlock(prev, c[1], c[2], c[3],
                                   ParseBlockState(legacyBlocks[fallback]))
                     ELSE prev
    IN  F[n]

\* mcedit.Read.
mceditRead(f) ==
    IF f.head # "gzip" THEN [err |-> "gzip decompress"]
    ELSE LET width == Field(f.root, "Width", 0)
             height == Field(f.root, "Height", 0)
             length == Field(f.root, "Length", 0)
             Blks == Field(f.root, "Blocks", <<>>)
             Data == Field(f.root, "Data", <<>>)
         IN  IF width <= 0 \/ height <= 0 \/ length <= 0 THEN [err |-> "invalid dimensions"]
             ELSE IF Len(Blks) # width * height * length \/ Len(Data) # width * height * length
                  THEN [err |-> "block data mismatch"]
             ELSE readTileEntities(
                     setLegacyBlocks(
                        SetOffset(SetDataVersion(New(width, height, length, "mcedit"), 1519),
                                  Field(f.root, "WEOffsetX", 0),
                                  Field(f.root, "WEOffsetY", 0),
                                  Field(f.root, "WEOffsetZ", 0)),
                        Blks, Data),
                     <<>>, Field(f.root, "TileEntities", <<>>))

\* The bytes Write puts at a cell: those of the reverse table for the
\* canonical string of the state, (0, 0) for no state and for a state the
\* table does not have.
legacyBytesNoData(state, rev) ==
    IF state = Nil THEN <<0, 0>>
    ELSE IF String(state) \in DOMAIN rev
         THEN <<rev[String(state)].ID, 0>>
         ELSE <<0, 0>>

legacyBytes(state, rev) ==
    IF state = Nil THEN <<0, 0>>
    ELSE IF String(state) \in DOMAIN rev
         THEN <<rev[String(state)].ID, rev[String(state)].Data>>
         ELSE <<0, 0>>

\* The "Block Entities" loop of Write: one tag for every coordinate that
\* has a block entity, in idx order, with x, y, z and id set first and the
\* entity's Data copied over them.
encodeTileEntities(s, h) ==
    LET n == s.width * s.height * s.length
        F[i \in 0..n] ==
            IF i = 0 THEN <<>>
            ELSE LET c == CellAt(s.width, s.length, i - 1)
                     be == BlockEntity(s, c[1], c[2], c[3])
                     prev == F[i - 1]
                 IN  IF be = NilRef THEN prev
                     ELSE Append(prev,
                            mapsCopy([x |-> Int32Value(c[1]), y |-> Int32Value(c[2]),
                                      z |-> Int32Value(c[3]), id |-> NBTString(h[be].ID)],
                                     h[be].Data))
    IN  F[n]

\* mcedit.Write: the file written, with the reverse table init() left.
mceditWrite(s, h, rev) ==
    LET count == s.width * s.height * s.length
        cell(i) == CellAt(s.width, s.length, i - 1)
        bytes(i) == legacyBytes(Block(s, cell(i)[1], cell(i)[2], cell(i)[3]), rev)
    IN  [head |-> "gzip",
         root |-> [Width |-> ToInt16(s.width), Height |-> ToInt16(s.height),
                   Length |-> ToInt16(s.length),
                   Materials |-> "Alpha",
                   Blocks |-> [i \in 1..count |-> bytes(i)[1]],
                   Data |-> [i \in 1..count |-> bytes(i)[2]],
                   TileEntities |-> encodeTileEntities(s, h),
                   WEOffsetX |-> s.offsetX, WEOffsetY |-> s.offsetY,
                   WEOffsetZ |-> s.offsetZ]]

---------------------------------------------------------------------------
(* The Axiom codec (axiom package).  A blueprint is the record of its      *)
(* magic (head), its header compound and its block-data compound (root).   *)
(* The 4096 entries of a chunk's data array are kept as the map from the   *)
(* index (from 0) to the entry for the non-zero entries, and the packed    *)
(* array as the map from the long's index to the long for the non-zero     *)
(* longs.  Offsets and coordinates are within int32.                       *)

chunkSize == 16
chunkArea == chunkSize * chunkSize
chunkVolume == chunkSize * chunkArea
defaultEmptyBlock == <<"minecraft:structure_void">>

\* int32(a + b) for a and b within int32: the sum cut to its low 32 bits.
Int32Sum(a, b) ==
    IF b > 0 /\ a > MaxInt32 - b THEN ((a - MaxInt32) + (b - MaxInt32)) - 2
    ELSE IF b < 0 /\ a < MinInt32 - b THEN (a - MinInt32) + (b - MinInt32)
    ELSE a + b

\* Go's a / b and a % b for b > 0: the quotient is cut toward zero and the
\* remainder has the sign of a.
Quo(a, b) == IF a >= 0 THEN a \div b ELSE (a + (b - 1)) \div b
Rem(a, b) == a - b * Quo(a, b)

\* bitsPerBlock.
bitsPerBlock(paletteSize) ==
    IF paletteSize <= 0 THEN 0 ELSE Max(bitsLen(paletteSize - 1), 4)

\* isEmptyBlock.
isEmptyBlock(name) ==
    name \in {<<>>, <<"minecraft:air">>, <<"minecraft:void_air">>,
              <<"minecraft:cave_air">>, <<"minecraft:structure_void">>}

\* blockStateKey of the axiom package: every value goes through fmt.Sprint.
axiomBlockStateKey(block) ==
    IF block = Nil THEN <<>>
    ELSE IF Cardinality(DOMAIN block.Properties) = 0 THEN block.Name
    ELSE block.Name \o <<"[">>
         \o keyParts(SortKeys(DOMAIN block.Properties), block.Properties)
         \o <<"]">>

\* base.PackLongArray on a chunk's data array: entry i goes to long
\* i / valuesPerLong at bit (i % valuesPerLong) * bitsPerEntry; a zero
\* entry leaves the long as it is.
PackChunkData(data, bitsPerEntry) ==
    IF bitsPerEntry = 0 THEN EmptyMap
    ELSE LET valuesPerLong == 64 \div bitsPerEntry
         IN  [longIdx \in {i \div valuesPerLong : i \in DOMAIN data} |->
                UNION {ShiftLeft(Int64(data[i]), (i % valuesPerLong) * bitsPerEntry) :
                         i \in {j \in DOMAIN data : j \div valuesPerLong = longIdx}}]

\* base.UnpackLongArray on a chunk's longs: the non-zero entries among the
\* first count.
UnpackChunkData(longs, bitsPerEntry, count) ==
    IF bitsPerEntry = 0 \/ DOMAIN longs = {} THEN EmptyMap
    ELSE LET valuesPerLong == 64 \div bitsPerEntry
             value(i) == ToInt(ShiftRight(longs[i \div valuesPerLong],
                                          (i % valuesPerLong) * bitsPerEntry)
                               \cap Mask(bitsPerEntry))
             slots == {i \in UNION {(k * valuesPerLong)..(k * valuesPerLong + valuesPerLong - 1) :
                                       k \in DOMAIN longs} : i < count}
         IN  [i \in {j \in slots : value(j) # 0} |-> value(i)]

\* newChunkBuilder.
newChunkBuilder ==
    [palette |-> [k \in {defaultEmptyBlock} |-> 0],
     entries |-> <<BlockState(defaultEmptyBlock, EmptyMap)>>,
     data |-> EmptyMap]

\* (*chunkBuilder).paletteIndex: the builder after the call and the index.
paletteIndex(cb, block) ==
    IF block = Nil THEN [cb |-> cb, idx |-> 0]
    ELSE LET key == axiomBlockStateKey(block)
         IN  IF key \in DOMAIN cb.palette THEN [cb |-> cb, idx |-> cb.palette[key]]
             ELSE [cb |-> [cb EXCEPT !.entries = Append(@, BlockState(block.Name,
                                                                   block.Properties)),
                                     !.palette = MapPut(@, key, Len(cb.entries))],
                   idx |-> Len(cb.entries)]

\* (*chunkBuilder).set: the builder after the call.
set(cb, localX, localY, localZ, block) ==
    LET idx == localY * chunkArea + localZ * chunkSize + localX
        r == paletteIndex(cb, block)
    IN  [r.cb EXCEPT !.data = IF r.idx = 0 THEN MapDelete(@, idx)
                              ELSE MapPut(@, idx, r.idx)]

\* toNBT with the chunk coordinates left at zero.
toNBTAtOrigin(cb, x, y, z) ==
    [X |-> 0, Y |-> 0, Z |-> 0,
     BlockStates |-> [palette |-> cb.entries,
                      data |-> PackChunkData(cb.data, bitsPerBlock(Len(cb.entries)))]]

\* (*chunkBuilder).toNBT.
toNBT(cb, x, y, z) ==
    [X |-> x, Y |-> y, Z |-> z,
     BlockStates |-> [palette |-> cb.entries,
                      data |-> PackChunkData(cb.data, bitsPerBlock(Len(cb.entries)))]]

\* The chunk and the chunk-local coordinate of a world coordinate with the
\* step for a negative remainder left half done: the local coordinate is
\* raised and the chunk is not lowered.
chunkOfNoBorrow(world) ==
    LET chunk == Quo(world, chunkSize)
        local == Rem(world, chunkSize)
    IN  IF local < 0 THEN [chunk |-> chunk, local |-> local + chunkSize]
        ELSE [chunk |-> chunk, local |-> local]

\* The chunk and the chunk-local coordinate Write gives a world coordinate:
\* Go's division and remainder, and for a negative remainder the local
\* coordinate raised by chunkSize and the chunk lowered by one.
chunkOf(world) ==
    LET chunk == Quo(world, chunkSize)
        local == Rem(world, chunkSize)
    IN  IF local < 0 THEN [chunk |-> chunk - 1, local |-> local + chunkSize]
        ELSE [chunk |-> chunk, local |-> local]

\* The loop of Write over the cells: the builders by chunk key <<X, Y, Z>>,
\* the block count and the containsAir flag.
buildChunks(s) ==
    LET n == s.width * s.height * s.length
        F[i \in 0..n] ==
            IF i = 0 THEN [chunks |-> EmptyMap, blockCount |-> 0, containsAir |-> FALSE]
            ELSE LET c == CellAt(s.width, s.length, i - 1)
                     block == Block(s, c[1], c[2], c[3])
                     prev == F[i - 1]
                 IN  IF block = Nil \/ isEmptyBlock(block.Name)
                     THEN [prev EXCEPT !.containsAir = TRUE]
                     ELSE LET X == chunkOf(Int32Sum(c[1], s.offsetX))
                              Y == chunkOf(Int32Sum(c[2], s.offsetY))
                              Z == chunkOf(Int32Sum(c[3], s.offsetZ))
                              key == <<X.chunk, Y.chunk, Z.chunk>>
                              builder == Field(prev.chunks, key, newChunkBuilder)
                          IN  [prev EXCEPT
                                 !.chunks = MapPut(@, key,
                                                   set(builder, X.local, Y.local, Z.local,
                                                       block)),
                                 !.blockCount = @ + 1]
    IN  F[n]

\* The less function of the sort.Slice call of Write: by Y, then Z, then X.
keyLess(a, b) ==
    IF a[2] # b[2] THEN a[2] < b[2]
    ELSE IF a[3] # b[3] THEN a[3] < b[3]
    ELSE a[1] < b[1]

\* The chunk keys in the order sort.Slice leaves them in.
RECURSIVE sortChunkKeys(_)
sortChunkKeys(keys) ==
    IF keys = {} THEN <<>>
    ELSE LET first == CHOOSE k \in keys : \A j \in keys \ {k} : keyLess(k, j)
         IN  <<first>> \o sortChunkKeys(keys \ {first})

\* collectBlockEntities: one map for every coordinate that has a block
\* entity, in idx order, with the absolute x, y, z (Go ints) and the id,
\* and the entity's Data copied over them.
collectBlockEntities(s, h) ==
    LET n == s.width * s.height * s.length
        F[i \in 0..n] ==
            IF i = 0 THEN <<>>
            ELSE LET c == CellAt(s.width, s.length, i - 1)
                     be == BlockEntity(s, c[1], c[2], c[3])
                     prev == F[i - 1]
                 IN  IF be = NilRef THEN prev
                     ELSE Append(prev,
                            mapsCopy([x |-> IntValue(h[be].X + s.offsetX),
                                      y |-> IntValue(h[be].Y + s.offsetY),
                                      z |-> IntValue(h[be].Z + s.offsetZ)]
                                     @@ (IF h[be].ID # "" THEN [id |-> NBTString(h[be].ID)]
                                         ELSE EmptyMap),
                                     h[be].Data))
    IN  F[n]

\* axiom.Write: the blueprint written.
axiomWrite(s, h) ==
    LET built == buildChunks(s)
        keys == sortChunkKeys(DOMAIN built.chunks)
        chunkList == IF keys = <<>> THEN <<toNBT(newChunkBuilder, 0, 0, 0)>>
                     ELSE [i \in 1..Len(keys) |->
                             toNBT(built.chunks[keys[i]], keys[i][1], keys[i][2], keys[i][3])]
    IN  [head |-> "axiom",
         header |-> [Version |-> 1, Name |-> "Converted Blueprint", Tags |-> <<"converted">>,
                     BlockCount |-> built.blockCount,
                     ContainsAir |-> built.containsAir \/ built.blockCount = 0],
         root |-> omitEmpty("BlockEntities", collectBlockEntities(s, h))
                  @@ [DataVersion |-> s.dataVersion, BlockRegion |-> chunkList]]

\* chunkNBT.states: BlockStates when it has a palette or data, else the
\* states under the legacy key "data".
states(c) ==
    LET none == [palette |-> <<>>, data |-> EmptyMap]
        BlockStates == Field(c, "BlockStates", none)
    IN  IF Len(BlockStates.palette) > 0 \/ DOMAIN BlockStates.data # {} THEN BlockStates
        ELSE Field(c, "data", none)

\* The elements of a set of integers in ascending order.
RECURSIVE ascending(_)
ascending(S) ==
    IF S = {} THEN <<>>
    ELSE LET least == CHOOSE i \in S : \A j \in S : i <= j
         IN  <<least>> \o ascending(S \ {least})

\* The box with its minimum corner moved to the point taken in last.
widenLastPoint(box, x0, y0, z0, x1, y1, z1) ==
    [box EXCEPT !.minX = x0, !.minY = y0, !.minZ = z0,
                !.maxX = Max(@, x1), !.maxY = Max(@, y1), !.maxZ = Max(@, z1),
                !.hasContent = TRUE]

\* The bounding box after a point, or the two corners of an entity
\* position, is taken in.
widen(box, x0, y0, z0, x1, y1, z1) ==
    [box EXCEPT !.minX = Min(@, x0), !.minY = Min(@, y0), !.minZ = Min(@, z0),
                !.maxX = Max(@, x1), !.maxY = Max(@, y1), !.maxZ = Max(@, z1),
                !.hasContent = TRUE]

\* The loop of Read over the entries of one chunk: a placement at the
\* global coordinates for every entry whose palette block is not empty.
RECURSIVE scanChunk(_, _, _, _, _)
scanChunk(box, chunk, palette, values, cells) ==
    IF cells = <<>> THEN box
    ELSE LET idx == cells[1]
             paletteIdx == Field(values, idx, 0)
             rest == Tail(cells)
         IN  IF paletteIdx < 0 \/ paletteIdx >= Len(palette)
             THEN scanChunk(box, chunk, palette, values, rest)
             ELSE IF isEmptyBlock(palette[paletteIdx + 1].Name)
             THEN scanChunk(box, chunk, palette, values, rest)
             ELSE LET localY == Quo(idx, chunkArea)
                      rem == Rem(idx, chunkArea)
                      localZ == Quo(rem, chunkSize)
                      localX == Rem(rem, chunkSize)
                      globalX == chunk.X * chunkSize + localX
                      globalY == chunk.Y * chunkSize + localY
                      globalZ == chunk.Z * chunkSize + localZ
                      b1 == widen(box, globalX, globalY, globalZ, globalX, globalY, globalZ)
                  IN  scanChunk([b1 EXCEPT
                                   !.placements = Append(@, [X |-> globalX, Y |-> globalY,
                                                             Z |-> globalZ,
                                                             Block |-> Clone(palette[paletteIdx + 1])]),
                                   !.blockCount = @ + 1],
                                chunk, palette, values, rest)

\* The loop of Read over BlockRegion.  The entries visited are those that
\* are not zero, and all 4096 when the palette's first block is not empty.
RECURSIVE scanChunks(_, _)
scanChunks(box, chunks) ==
    IF chunks = <<>> THEN box
    ELSE LET st == states(chunks[1])
             palette == st.palette
             values == UnpackChunkData(st.data, bitsPerBlock(Len(palette)), chunkVolume)
             cells == IF palette # <<>> /\ ~isEmptyBlock(palette[1].Name)
                      THEN [i \in 1..chunkVolume |-> i - 1]
                      ELSE ascending(DOMAIN values)
         IN  scanChunks(scanChunk(box, chunks[1], palette, values, cells), Tail(chunks))

\* The loop of Read over BlockEntities: a record whose x, y and z are not
\* all int32 is skipped; the others become objects at their absolute
\* coordinates and widen the box.
RECURSIVE scanBlockEntities(_, _)
scanBlockEntities(box, raws) ==
    IF raws = <<>> THEN box
    ELSE LET raw == raws[1]
         IN  IF ~(isInt32(raw, "x") /\ isInt32(raw, "y") /\ isInt32(raw, "z"))
             THEN scanBlockEntities(box, Tail(raws))
             ELSE LET x == raw["x"].i32
                      y == raw["y"].i32
                      z == raw["z"].i32
                      id == IF "id" \in DOMAIN raw /\ raw["id"].kind = "string"
                            THEN raw["id"].s ELSE ""
                      be == NewBlockEntity(id, x, y, z,
                               [k \in {j \in DOMAIN raw : ToLower(j) \notin {"x", "y", "z", "id"}}
                                   |-> NBTValue(raw[k])])
                      b1 == widen(box, x, y, z, x, y, z)
                  IN  scanBlockEntities([b1 EXCEPT !.rawBlockEntities = Append(@, be)],
                                        Tail(raws))

\* math.Floor and math.Ceil of a float64 counted in halves.
Floor(p) == p \div 2
Ceil(p) == -((-p) \div 2)

\* The loop of Read over Entities: a Pos that is a []float64 of at least
\* three entries widens the box by its floor and its ceiling.
RECURSIVE scanEntities(_, _)
scanEntities(box, raws) ==
    IF raws = <<>> THEN box
    ELSE LET raw == raws[1]
         IN  IF "Pos" \in DOMAIN raw /\ raw["Pos"].kind = "float64s" /\ Len(raw["Pos"].f) >= 3
             THEN LET pos == raw["Pos"].f
                  IN  scanEntities(widen(box, Floor(pos[1]), Floor(pos[2]), Floor(pos[3]),
                                         Ceil(pos[1]), Ceil(pos[2]), Ceil(pos[3])),
                                   Tail(raws))
             ELSE scanEntities(box, Tail(raws))

\* The loop of Read over rawBlockEntities: a clone of every object within
\* the box is stored at its box-local coordinates.
RECURSIVE setRawBlockEntities(_, _, _, _, _, _)
setRawBlockEntities(s, h, raws, minX, minY, minZ) ==
    IF raws = <<>> THEN [s |-> s, heap |-> h]
    ELSE LET be == raws[1]
             lx == be.X - minX
             ly == be.Y - minY
             lz == be.Z - minZ
         IN  IF OutOfBounds(s, lx, ly, lz)
             THEN setRawBlockEntities(s, h, Tail(raws), minX, minY, minZ)
             ELSE LET h1 == Append(h, [be EXCEPT !.X = lx, !.Y = ly, !.Z = lz])
                      r == SetBlockEntity(s, h1, lx, ly, lz, Len(h1))
                  IN  setRawBlockEntities(r.s, r.heap, Tail(raws), minX, minY, minZ)

\* axiom.Read.
axiomRead(f) ==
    IF f.head # "axiom" THEN [err |-> "invalid magic"]
    ELSE LET blockData == f.root
             box0 == [minX |-> MaxInt32, minY |-> MaxInt32, minZ |-> MaxInt32,
                      maxX |-> MinInt32, maxY |-> MinInt32, maxZ |-> MinInt32,
                      hasContent |-> FALSE, blockCount |-> 0,
                      placements |-> <<>>, rawBlockEntities |-> <<>>]
             box == scanEntities(
                       scanBlockEntities(
                          scanChunks(box0, Field(blockData, "BlockRegion", <<>>)),
                          Field(blockData, "BlockEntities", <<>>)),
                       Field(blockData, "Entities", <<>>))
         IN  IF ~box.hasContent
             THEN [s |-> SetDataVersion(New(0, 0, 0, "axiom"), Field(blockData, "DataVersion", 0)),
                   heap |-> <<>>]
             ELSE LET width == Max(box.maxX - box.minX + 1, 1)
                      height == Max(box.maxY - box.minY + 1, 1)
                      length == Max(box.maxZ - box.minZ + 1, 1)
                      s0 == SetDataVersion(
                               SetOffset(New(width, height, length, "axiom"),
                                         box.minX, box.minY, box.minZ),
                               Field(blockData, "DataVersion", 0))
                  IN  setRawBlockEntities(
                         setPlacements(s0, box.placements, box.minX, box.minY, box.minZ),
                         <<>>, box.rawBlockEntities, box.minX, box.minY, box.minZ)

---------------------------------------------------------------------------
(* The dispatch surface (format package): Detect, the two registries,      *)
(* Read, ReadFormat, Write and WriteFormat.  The head of a file is "short" *)
(* when it has fewer than four bytes, "axiom" when it starts with the      *)
(* Axiom magic, "gzip" when it starts with the gzip magic and "other"      *)
(* otherwise.  The Version tag of a file is a TAG_Int unless the file's    *)
(* versionTag says otherwise, and the gzip stream and the NBT in it are    *)
(* well formed unless the file's wellFormed says otherwise.                *)

\* binary.BigEndian.Uint32(b), as the pair of its high and its low 16 bits.
Uint32LittleEndian(b) == <<b[4] * 256 + b[3], b[2] * 256 + b[1]>>

Uint32(b) == <<b[1] * 256 + b[2], b[3] * 256 + b[4]>>

\* axiomMagic, 0x0AE5BB36, as the same pair.
axiomMagic == <<2789, 47926>>

\* The head of a file whose bytes are data, by the tests of Detect in
\* their order.
headOf(data) ==
    IF Len(data) < 4 THEN "short"
    ELSE IF Uint32(SubSeq(data, 1, 4)) = axiomMagic THEN "axiom"
    ELSE IF Len(data) >= 2 /\ data[1] = 31 /\ data[2] = 139 THEN "gzip"
    ELSE "other"

\* format.detectGzipFormat, on the decoded root compound; the sponge test
\* moved behind the MCEdit test in the first definition.
detectGzipFormatMceditFirst(f) ==
    LET root == f.root
        hasVersion == "Version" \in DOMAIN root /\ Field(f, "versionTag", "int") = "int"
    IN  IF ~Field(f, "wellFormed", TRUE) THEN [err |-> "gzip decompress"]
        ELSE IF hasVersion /\ "Regions" \in DOMAIN root
        THEN IF root.Version = 6 \/ root.Version = 7
             THEN [id |-> "litematica"]
             ELSE [err |-> "unsupported Litematica version"]
        ELSE IF {"Materials", "Blocks", "Data"} \subseteq DOMAIN root
        THEN [id |-> "mcedit"]
        ELSE IF hasVersion
        THEN CASE root.Version = 1 -> [id |-> "sponge_v1"]
               [] root.Version = 2 -> [id |-> "sponge_v2"]
               [] root.Version = 3 -> [id |-> "sponge_v3"]
               [] OTHER -> [err |-> "unknown Sponge schematic version"]
        ELSE [err |-> "unknown gzip NBT format"]

detectGzipFormat(f) ==
    LET root == f.root
        hasVersion == "Version" \in DOMAIN root /\ Field(f, "versionTag", "int") = "int"
    IN  IF ~Field(f, "wellFormed", TRUE) THEN [err |-> "gzip decompress"]
        ELSE IF hasVersion /\ "Regions" \in DOMAIN root
        THEN IF root.Version = 6 \/ root.Version = 7
             THEN [id |-> "litematica"]
             ELSE [err |-> "unsupported Litematica version"]
        ELSE IF hasVersion
        THEN CASE root.Version = 1 -> [id |-> "sponge_v1"]
               [] root.Version = 2 -> [id |-> "sponge_v2"]
               [] root.Version = 3 -> [id |-> "sponge_v3"]
               [] OTHER -> [err |-> "unknown Sponge schematic version"]
        ELSE IF {"Materials", "Blocks", "Data"} \subseteq DOMAIN root
        THEN [id |-> "mcedit"]
        ELSE [err |-> "unknown gzip NBT format"]

\* format.Detect: [id |-> format id] or [err |-> message].
Detect(f) ==
    IF f.head = "short" THEN [err |-> "insufficient data for format detection"]
    ELSE IF f.head = "axiom" THEN [id |-> "axiom"]
    ELSE IF f.head = "gzip" THEN detectGzipFormat(f)
    ELSE [err |-> "unknown format"]

\* The registries: format id to the function registered under it.
formatReaders ==
    [axiom |-> "axiom.Read",
     mcedit |-> "mcedit.Read",
     sponge_v1 |-> "sponge.ReadV1",
     sponge_v2 |-> "sponge.ReadV2",
     sponge_v3 |-> "sponge.ReadV3",
     litematica_v6 |-> "litematica.ReadV6",
     litematica_v7 |-> "litematica.ReadV7"]

formatWriters ==
    [axiom |-> "axiom.Write",
     mcedit |-> "mcedit.Write",
     sponge_v1 |-> "sponge.WriteV1",
     sponge_v2 |-> "sponge.WriteV2",
     sponge_v3 |-> "sponge.WriteV3",
     litematica_v6 |-> "litematica.WriteV6",
     litematica_v7 |-> "litematica.WriteV7"]

\* The call reader(r) of ReadFormat, for the readers the dispatch
\* specification reaches.
callReader(reader, f, regionName) ==
    CASE reader = "sponge.ReadV1" -> ReadV1(f)
      [] reader = "sponge.ReadV2" -> ReadV2(f)
      [] reader = "sponge.ReadV3" -> ReadV3(f)
      [] reader = "litematica.ReadV6" -> ReadV6(f, regionName)

\* The call writer(w, schem) of WriteFormat, for the writers the dispatch
\* specification reaches.
callWriter(writer, s, h) ==
    CASE writer = "sponge.WriteV1" -> WriteV1(s, h)
      [] writer = "sponge.WriteV2" -> WriteV2(s, h)
      [] writer = "sponge.WriteV3" -> WriteV3(s, h)
      [] writer = "litematica.WriteV6" -> WriteV6(s)

\* format.ReadFormat: an unregistered id is an unsupported-format error, a
\* reader's error is wrapped.
ReadFormat(f, formatID, regionName) ==
    IF formatID \notin DOMAIN formatReaders THEN [err |-> "unsupported format"]
    ELSE LET r == callReader(formatReaders[formatID], f, regionName)
         IN  IF "err" \in DOMAIN r THEN [err |-> "read", cause |-> r.err] ELSE r

\* format.Read: Detect, then ReadFormat with the id detected.
Read(f, regionName) ==
    LET d == Detect(f)
    IN  IF "err" \in DOMAIN d THEN [err |-> "detect format", cause |-> d.err]
        ELSE ReadFormat(f, d.id, regionName)

\* format.WriteFormat: [file |-> bytes written] or [err |-> message].
WriteFormat(formatID, s, h) ==
    IF formatID \notin DOMAIN formatWriters THEN [err |-> "unsupported format"]
    ELSE [file |-> callWriter(formatWriters[formatID], s, h)]

\* format.Write: WriteFormat with the id the schematic declares.
Write(s, h) ==
    IF s.formatID = "" THEN [err |-> "schematic does not declare a format"]
    ELSE WriteFormat(s.formatID, s, h)

---------------------------------------------------------------------------
(* The inputs of the model.                                                *)

Stone == BlockState(<<"minecraft:stone">>, EmptyMap)
Air == BlockState(<<"minecraft:air">>, EmptyMap)
Stairs == BlockState(<<"minecraft:oak_stairs">>,
                     [k \in {<<"facing">>, <<"lit">>} |->
                        IF k = <<"facing">> THEN StringValue(<<"north">>) ELSE BoolValue(TRUE)])
Cake == BlockState(<<"minecraft:cake">>, [k \in {<<"level">>} |-> IntValue(7)])

\* The block states callers pass to SetBlock.
BlockArgs == {Stone, Air}

\* The dimensions callers construct schematics with.
Dims == {<<1, 1, 1>>, <<MaxDim, 2, MaxDim>>}

\* The coordinates callers pass: in range, below it and above it.
CoordArgs == -1..MaxDim

\* The BlockEntity objects the caller holds at the start.
InitialHeap ==
    << NewBlockEntity("minecraft:chest", 0, 0, 0, [Lock |-> "abc"]),
       NewBlockEntity("minecraft:sign", 0, 0, 0, EmptyMap) >>

---------------------------------------------------------------------------
(* Spec: a caller constructs a schematic and mutates it through the        *)
(* interface.                                                              *)

NoCall == [op |-> "New"]
NoFile == [none |-> TRUE]
NoResult == [none |-> TRUE]

Init ==
    /\ \E d \in Dims : schem = New(d[1], d[2], d[3], "")
    /\ heap = InitialHeap
    /\ call = NoCall
    /\ calls = 0
    /\ file = NoFile
    /\ res = NoResult

\* schem.SetBlock(x, y, z, block)
DoSetBlock ==
    /\ calls < MaxCalls
    /\ \E x \in CoordArgs, y \in CoordArgs, z \in CoordArgs, b \in BlockArgs \cup {Nil} :
          /\ schem' = SetBlock(schem, x, y, z, b)
          /\ call' = [op |-> "SetBlock", x |-> x, y |-> y, z |-> z]
    /\ calls' = calls + 1
    /\ UNCHANGED <<heap, file, res>>

\* schem.SetBlockEntity(x, y, z, be)
DoSetBlockEntity ==
    /\ calls < MaxCalls
    /\ \E x \in CoordArgs, y \in CoordArgs, z \in CoordArgs, be \in DOMAIN heap \cup {NilRef} :
          LET r == SetBlockEntity(schem, heap, x, y, z, be)
          IN  /\ schem' = r.s
              /\ heap' = r.heap
              /\ call' = [op |-> "SetBlockEntity", x |-> x, y |-> y, z |-> z]
    /\ calls' = calls + 1
    /\ UNCHANGED <<file, res>>

Next == DoSetBlock \/ DoSetBlockEntity

Spec == Init /\ [][Next]_vars

---------------------------------------------------------------------------
(* Properties of the uniform model, checked under Spec.                    *)

\* The coordinates inside the schematic s.
InRangeCoords(s) == (0..(s.width - 1)) \X (0..(s.height - 1)) \X (0..(s.length - 1))

\* The call recorded in c had a coordinate outside the schematic s.
CallOutOfRange(s, c) == c.op # "New" /\ <<c.x, c.y, c.z>> \notin InRangeCoords(s)

\* C6: no entry of the block map has a name in the air set; an air cell is
\* always the absence of an entry.  SetBlock stores whatever non-nil block
\* it is given, so this fails.
C6_NoAirStored ==
    \A k \in DOMAIN schem.blocks : ~isAirBlock(schem.blocks[k].Name)

\* C7: every entry of the block-entity map has X, Y, Z equal to the
\* coordinates of the key it is stored under.  SetBlockEntity stores the
\* caller's pointer, so a second call with the same object moves the
\* coordinates of the first entry, and this fails.
C7_StoredCoordinates ==
    \A c \in InRangeCoords(schem) :
        LET k == c[1] + c[3] * schem.width + c[2] * schem.width * schem.length
        IN  k \in DOMAIN schem.blockEntities =>
                LET be == heap[schem.blockEntities[k]]
                IN  be.X = c[1] /\ be.Y = c[2] /\ be.Z = c[3]

\* C8, the state part: every key of the two maps is the index of an
\* in-range coordinate, index is x + z*width + y*width*length and distinct
\* in-range coordinates never share it, and Block and BlockEntity return nil
\* outside the range.
C8_KeysInRange ==
    /\ \A k \in DOMAIN schem.blocks \cup DOMAIN schem.blockEntities :
          \E c \in InRangeCoords(schem) : k = index(schem, c[1], c[2], c[3])
    /\ \A c \in InRangeCoords(schem) :
          /\ index(schem, c[1], c[2], c[3])
                = c[1] + c[3] * schem.width + c[2] * schem.width * schem.length
          /\ \A d \in InRangeCoords(schem) :
                c # d => index(schem, c[1], c[2], c[3]) # index(schem, d[1], d[2], d[3])
    /\ \A x \in CoordArgs, y \in CoordArgs, z \in CoordArgs :
          <<x, y, z>> \notin InRangeCoords(schem) =>
              Block(schem, x, y, z) = Nil /\ BlockEntity(schem, x, y, z) = NilRef

\* C8: the state part always holds, and a SetBlock or SetBlockEntity call
\* with a coordinate outside the range leaves the schematic and the block
\* entity objects unchanged.
C8_OutOfRangeIgnored ==
    /\ []C8_KeysInRange
    /\ [][CallOutOfRange(schem, call') => (schem' = schem /\ heap' = heap)]_vars

\* C8's case: an out-of-range call has been made on a schematic that holds
\* a block under a key other than 0.
C8_Witness ==
    /\ CallOutOfRange(schem, call)
    /\ \E k \in DOMAIN schem.blocks : k > 0

---------------------------------------------------------------------------
(* SpecSponge: a caller holds a schematic built with New, SetBlock,        *)
(* SetOffset and SetDataVersion, writes it with a Sponge writer and reads  *)
(* the bytes back with a Sponge reader.                                    *)

\* The block states of the source schematics.
SpongeBlocks == {Stone, Stairs, Cake, Air}

\* The dimensions of the source schematics.
SpongeDims == {<<1, 1, 1>>, <<MaxDim, 1, MaxDim>>, <<MaxDim, 2, 1>>}

\* The offsets and data versions the caller sets.
Offsets == {<<0, 0, 0>>, <<-5, 64, 7>>}
DataVersions == {0, 3465}

\* The SetBlock calls that build a source schematic: at most MaxBlocks
\* calls, each with an in-range coordinate and a block of kinds.
Placements(d, kinds) ==
    UNION {[1..n -> ((0..(d[1] - 1)) \X (0..(d[2] - 1)) \X (0..(d[3] - 1))) \X kinds] :
              n \in 0..MaxBlocks}

\* The schematic after New(d) and the SetBlock calls of p, SetOffset(o) and
\* SetDataVersion(v).
RECURSIVE place(_, _)
place(s, p) ==
    IF p = <<>> THEN s
    ELSE place(SetBlock(s, p[1][1][1], p[1][1][2], p[1][1][3], p[1][2]), Tail(p))

Source(d, p, o, v, formatID) ==
    SetDataVersion(SetOffset(place(New(d[1], d[2], d[3], formatID), p), o[1], o[2], o[3]), v)

InitSponge ==
    /\ \E d \in SpongeDims, o \in Offsets, v \in DataVersions :
          \E p \in Placements(d, SpongeBlocks) : schem = Source(d, p, o, v, "")
    /\ heap = <<>>
    /\ call = [op |-> "New", writer |-> "none"]
    /\ calls = 0
    /\ file = NoFile
    /\ res = NoResult

\* sponge.WriteV1(w, schem)
DoWriteV1 ==
    /\ file' = WriteV1(schem, heap)
    /\ call' = [op |-> "WriteV1", writer |-> "WriteV1"]
    /\ res' = NoResult
    /\ UNCHANGED <<schem, heap, calls>>

\* sponge.WriteV2(w, schem)
DoWriteV2 ==
    /\ file' = WriteV2(schem, heap)
    /\ call' = [op |-> "WriteV2", writer |-> "WriteV2"]
    /\ res' = NoResult
    /\ UNCHANGED <<schem, heap, calls>>

\* sponge.WriteV3(w, schem)
DoWriteV3 ==
    /\ file' = WriteV3(schem, heap)
    /\ call' = [op |-> "WriteV3", writer |-> "WriteV3"]
    /\ res' = NoResult
    /\ UNCHANGED <<schem, heap, calls>>

\* sponge.ReadV1(r) on the bytes last written
DoReadV1 ==
    /\ file # NoFile
    /\ res' = ReadV1(file)
    /\ call' = [op |-> "ReadV1", writer |-> call.writer]
    /\ UNCHANGED <<schem, heap, calls, file>>

\* sponge.ReadV2(r) on the bytes last written
DoReadV2 ==
    /\ file # NoFile
    /\ res' = ReadV2(file)
    /\ call' = [op |-> "ReadV2", writer |-> call.writer]
    /\ UNCHANGED <<schem, heap, calls, file>>

\* sponge.ReadV3(r) on the bytes last written
DoReadV3 ==
    /\ file # NoFile
    /\ res' = ReadV3(file)
    /\ call' = [op |-> "ReadV3", writer |-> call.writer]
    /\ UNCHANGED <<schem, heap, calls, file>>

NextSponge ==
    \/ DoWriteV1 \/ DoWriteV2 \/ DoWriteV3
    \/ DoReadV1 \/ DoReadV2 \/ DoReadV3

SpecSponge == InitSponge /\ [][NextSponge]_vars

---------------------------------------------------------------------------
(* Properties of the Sponge codecs, checked under SpecSponge.              *)

\* The schematic a has the dimensions of b.
SameDimensions(a, b) == a.width = b.width /\ a.height = b.height /\ a.length = b.length

\* At every coordinate the block of b is nil exactly when the block of a
\* is, and otherwise the two have the same canonical string.
SameBlocks(a, b) ==
    \A c \in InRangeCoords(a) :
        LET x == Block(a, c[1], c[2], c[3])
            y == Block(b, c[1], c[2], c[3])
        IN  /\ (x = Nil) <=> (y = Nil)
            /\ (x # Nil /\ y # Nil) => String(x) = String(y)

\* The schematic s stores no block with an air name.
OnlyNonAir(s) == \A k \in DOMAIN s.blocks : ~isAirBlock(s.blocks[k].Name)

\* C1: for a schematic with only non-air stored blocks, ReadV2(WriteV2(s))
\* and ReadV3(WriteV3(s)) succeed with the same dimensions, offset and data
\* version, and Block is nil exactly where it is nil in s and has the same
\* canonical string elsewhere.  The readers store the palette entry of
\* index 0 (minecraft:air) at every cell that was empty, so this fails.
C1_SpongeRoundTrip ==
    (/\ <<call.writer, call.op>> \in {<<"WriteV2", "ReadV2">>, <<"WriteV3", "ReadV3">>}
     /\ OnlyNonAir(schem))
    => /\ "s" \in DOMAIN res
       /\ SameDimensions(schem, res.s)
       /\ <<res.s.offsetX, res.s.offsetY, res.s.offsetZ>>
             = <<schem.offsetX, schem.offsetY, schem.offsetZ>>
       /\ res.s.dataVersion = schem.dataVersion
       /\ SameBlocks(schem, res.s)

\* C5: WriteV1 puts Version = 1 and the other v1 fields in the root
\* compound itself, and ReadV1(WriteV1(s)) succeeds with the dimensions and
\* the block of every coordinate of s.  WriteV1 wraps the fields under the
\* key "Schematic" and ReadV1 reads them from the root, so this fails.
C5_V1RoundTrip ==
    /\ call.writer = "WriteV1" =>
          /\ {"Version", "Width", "Height", "Length", "Palette", "BlockData"}
                \subseteq DOMAIN file.root
          /\ file.root.Version = 1
    /\ <<call.writer, call.op>> = <<"WriteV1", "ReadV1">> =>
          /\ "s" \in DOMAIN res
          /\ SameDimensions(schem, res.s)
          /\ SameBlocks(schem, res.s)

---------------------------------------------------------------------------
(* SpecLitematica: a caller writes a schematic with WriteV6; the bytes, or *)
(* a file of the same region as Litematica itself saves it when the        *)
(* selection was dragged from the opposite corner (negative Size), are     *)
(* read back with ReadV6 or with Read.                                     *)

\* The block states of the source schematics.
LitematicaBlocks == {Stone, Stairs, Air}

\* The dimensions of the source schematics that take up to MaxBlocks
\* SetBlock calls, and the dimensions of those that take at most one.
LitematicaDims == {<<1, 1, 1>>, <<MaxDim, 2, MaxDim>>}
SingleBlockDims == {<<3, 3, 3>>}

\* The axes along which an external file has a negative Size.
AxesArgs == {{"x"}, {"x", "y", "z"}}

\* The file f with its region "Region" described from the opposite corner
\* along the axes of axes: Size negated and Position moved to the other
\* end, the block array unchanged.
Mirror(f, axes) ==
    LET region == f.root.Regions.Region
        Position == [a \in {"x", "y", "z"} |->
                        IF a \in axes THEN region.Position[a] + region.Size[a] - 1
                        ELSE region.Position[a]]
        size == [a \in {"x", "y", "z"} |->
                    IF a \in axes THEN -region.Size[a] ELSE region.Size[a]]
    IN  [f EXCEPT !.root.Regions.Region.Position = Position,
                  !.root.Regions.Region.Size = size]

InitLitematica ==
    /\ \E o \in Offsets :
          \/ \E d \in LitematicaDims : \E p \in Placements(d, LitematicaBlocks) :
                schem = Source(d, p, o, 3465, "")
          \/ \E d \in SingleBlockDims : \E p \in Placements(d, LitematicaBlocks) :
                Len(p) <= 1 /\ schem = Source(d, p, o, 3465, "")
    /\ heap = <<>>
    /\ call = [op |-> "New", writer |-> "none"]
    /\ calls = 0
    /\ file = NoFile
    /\ res = NoResult

\* litematica.WriteV6(w, schem)
DoWriteV6 ==
    /\ call.op = "New"
    /\ file' = WriteV6(schem)
    /\ call' = [op |-> "WriteV6", writer |-> "WriteV6"]
    /\ res' = NoResult
    /\ UNCHANGED <<schem, heap, calls>>

\* A file of the same region saved by Litematica with a negative Size.
DoExternalFile ==
    /\ call.op = "WriteV6"
    /\ \E axes \in AxesArgs : file' = Mirror(file, axes)
    /\ call' = [op |-> "External", writer |-> "External"]
    /\ res' = NoResult
    /\ UNCHANGED <<schem, heap, calls>>

\* litematica.ReadV6(r) on the file
DoReadV6 ==
    /\ file # NoFile
    /\ \E regionName \in RegionChoices(file) :
          /\ res' = ReadV6(file, regionName)
          /\ call' = [op |-> "ReadV6", writer |-> call.writer, region |-> regionName]
    /\ UNCHANGED <<schem, heap, calls, file>>

\* litematica.Read(r) on the file
DoLitematicaRead ==
    /\ file # NoFile
    /\ \E regionName \in RegionChoices(file) :
          /\ res' = litematicaRead(file, regionName)
          /\ call' = [op |-> "Read", writer |-> call.writer, region |-> regionName]
    /\ UNCHANGED <<schem, heap, calls, file>>

NextLitematica == DoWriteV6 \/ DoExternalFile \/ DoReadV6 \/ DoLitematicaRead

SpecLitematica == InitLitematica /\ [][NextLitematica]_vars

---------------------------------------------------------------------------
(* Properties of the Litematica codecs, checked under SpecLitematica.      *)

\* The coordinates of s that hold a block with a non-air name.
NonAirCoords(s) ==
    {c \in InRangeCoords(s) :
        /\ Block(s, c[1], c[2], c[3]) # Nil
        /\ ~isAirBlock(Block(s, c[1], c[2], c[3]).Name)}

\* The least and the greatest member of a non-empty set of integers.
Least(S) == CHOOSE m \in S : \A n \in S : m <= n
Greatest(S) == CHOOSE m \in S : \A n \in S : n <= m

\* The minimum corner and the dimensions of the bounding box of a
\* non-empty set of coordinates.
BoxMin(cs) ==
    <<Least({c[1] : c \in cs}), Least({c[2] : c \in cs}), Least({c[3] : c \in cs})>>
BoxDims(cs) ==
    <<Greatest({c[1] : c \in cs}) - Least({c[1] : c \in cs}) + 1,
      Greatest({c[2] : c \in cs}) - Least({c[2] : c \in cs}) + 1,
      Greatest({c[3] : c \in cs}) - Least({c[3] : c \in cs}) + 1>>

\* The dimensions and the offset of a schematic.
DimsOf(s) == <<s.width, s.height, s.length>>
OffsetOf(s) == <<s.offsetX, s.offsetY, s.offsetZ>>

\* The origin the region of the file has by the rule of the
\* specification: Position where Size is non-negative, Position + Size + 1
\* elsewhere.
RegionOrigin(region) ==
    LET o == [a \in {"x", "y", "z"} |->
                 IF region.Size[a] >= 0 THEN region.Position[a]
                 ELSE region.Position[a] + region.Size[a] + 1]
    IN  <<o.x, o.y, o.z>>

\* C9: a Litematica read crops to content.  The region of the file holds
\* the blocks of schem, so when schem has a non-air block the schematic read
\* has the dimensions of the bounding box of the non-air blocks and the
\* offset region origin + box minimum; otherwise it has the dimensions
\* |Size| and the offset region origin.  Read counts the offset from
\* Position also where Size is negative, so this fails.
C9_CropToContent ==
    call.op \in {"ReadV6", "Read"} =>
        LET region == file.root.Regions[call.region]
            origin == RegionOrigin(region)
            cs == NonAirCoords(schem)
        IN  /\ "s" \in DOMAIN res
            /\ IF cs # {}
               THEN /\ DimsOf(res.s) = BoxDims(cs)
                    /\ OffsetOf(res.s) = <<origin[1] + BoxMin(cs)[1],
                                           origin[2] + BoxMin(cs)[2],
                                           origin[3] + BoxMin(cs)[3]>>
               ELSE /\ DimsOf(res.s) = <<Abs(region.Size.x), Abs(region.Size.y),
                                         Abs(region.Size.z)>>
                    /\ OffsetOf(res.s) = origin

\* C10: for a schematic with offset o and a non-air block,
\* ReadV6(WriteV6(s)) has the dimensions of the bounding box of the non-air
\* blocks and the offset o + box minimum, every non-air block of s is at
\* the same world position with the same canonical string, and no other
\* cell holds a block.
C10_V6RoundTrip ==
    (/\ <<call.writer, call.op>> = <<"WriteV6", "ReadV6">>
     /\ NonAirCoords(schem) # {})
    => LET cs == NonAirCoords(schem)
           m == BoxMin(cs)
       IN  /\ "s" \in DOMAIN res
           /\ DimsOf(res.s) = BoxDims(cs)
           /\ OffsetOf(res.s) = <<schem.offsetX + m[1], schem.offsetY + m[2],
                                  schem.offsetZ + m[3]>>
           /\ \A c \in cs :
                 LET b == Block(res.s, c[1] - m[1], c[2] - m[2], c[3] - m[3])
                 IN  /\ b # Nil
                     /\ String(b) = String(Block(schem, c[1], c[2], c[3]))
           /\ \A c \in InRangeCoords(res.s) :
                 Block(res.s, c[1], c[2], c[3]) # Nil =>
                     <<c[1] + m[1], c[2] + m[2], c[3] + m[3]>> \in cs

\* C10's case: a 3x3x3 schematic with a non-zero offset and its only
\* block at (2,2,2) has been written by WriteV6 and read by ReadV6 as a
\* 1x1x1 schematic that holds the block.
C10_Witness ==
    /\ <<call.writer, call.op>> = <<"WriteV6", "ReadV6">>
    /\ DimsOf(schem) = <<3, 3, 3>>
    /\ NonAirCoords(schem) = {<<2, 2, 2>>}
    /\ OffsetOf(schem) # <<0, 0, 0>>
    /\ "s" \in DOMAIN res
    /\ DimsOf(res.s) = <<1, 1, 1>>
    /\ Block(res.s, 0, 0, 0) # Nil

---------------------------------------------------------------------------
(* SpecDispatch: a caller writes a schematic through WriteFormat or Write, *)
(* or obtains a Litematica file of some version from elsewhere, and then   *)
(* calls Detect, Read or ReadFormat on the bytes.  The format ids the      *)
(* caller passes are those of the Sponge and Litematica v6 codecs and the  *)
(* unregistered id "litematica".                                           *)

\* The format ids passed to WriteFormat and ReadFormat.
FormatArgs == {"sponge_v1", "sponge_v2", "sponge_v3", "litematica_v6", "litematica"}

\* The format ids the source schematics declare (Format()).
SourceFormats == {"", "sponge_v2", "litematica"}

\* The dimensions and the blocks of the source schematics.
DispatchDims == {<<1, 1, 1>>, <<MaxDim, 1, MaxDim>>}
DispatchBlocks == {Stone, Stairs}

\* The root Version values of the Litematica files obtained from elsewhere.
VersionArgs == {2, 5, 6, 7, 8}

InitDispatch ==
    /\ \E d \in DispatchDims, id \in SourceFormats :
          \E p \in Placements(d, DispatchBlocks) :
             schem = Source(d, p, <<-5, 64, 7>>, 3465, id)
    /\ heap = <<>>
    /\ call = [op |-> "New", writer |-> "none", format |-> ""]
    /\ calls = 0
    /\ file = NoFile
    /\ res = NoResult

\* format.WriteFormat(w, formatID, schem); nothing is written on an error.
DoWriteFormat ==
    /\ \E formatID \in FormatArgs :
          /\ \E w \in {WriteFormat(formatID, schem, heap)} :
                /\ file' = IF "file" \in DOMAIN w THEN w.file ELSE file
                /\ res' = IF "file" \in DOMAIN w THEN [ok |-> TRUE] ELSE w
          /\ call' = [op |-> "WriteFormat",
                      writer |-> IF res' = [ok |-> TRUE] THEN "WriteFormat"
                                 ELSE call.writer,
                      format |-> formatID]
    /\ UNCHANGED <<schem, heap, calls>>

\* format.Write(w, schem); nothing is written on an error.
DoWrite ==
    /\ \E w \in {Write(schem, heap)} :
          /\ file' = IF "file" \in DOMAIN w THEN w.file ELSE file
          /\ res' = IF "file" \in DOMAIN w THEN [ok |-> TRUE] ELSE w
    /\ call' = [op |-> "Write",
                writer |-> IF res' = [ok |-> TRUE] THEN "Write" ELSE call.writer,
                format |-> schem.formatID]
    /\ UNCHANGED <<schem, heap, calls>>

\* A Litematica file of the given root Version obtained from elsewhere: a
\* gzip NBT file with Version and Regions in its root.
DoExternalLitematica ==
    /\ \E v \in VersionArgs : file' = [WriteV6(schem) EXCEPT !.root.Version = v]
    /\ res' = NoResult
    /\ call' = [op |-> "External", writer |-> "External", format |-> ""]
    /\ UNCHANGED <<schem, heap, calls>>

\* format.Detect(data) on the bytes
DoDetect ==
    /\ file # NoFile
    /\ res' = Detect(file)
    /\ call' = [op |-> "Detect", writer |-> call.writer, format |-> ""]
    /\ UNCHANGED <<schem, heap, calls, file>>

\* format.Read(r) on the bytes
DoRead ==
    /\ file # NoFile
    /\ \E regionName \in RegionChoices(file) : res' = Read(file, regionName)
    /\ call' = [op |-> "Read", writer |-> call.writer, format |-> ""]
    /\ UNCHANGED <<schem, heap, calls, file>>

\* format.ReadFormat(r, formatID) on the bytes
DoReadFormat ==
    /\ file # NoFile
    /\ \E formatID \in FormatArgs :
          /\ \E regionName \in RegionChoices(file) :
                res' = ReadFormat(file, formatID, regionName)
          /\ call' = [op |-> "ReadFormat", writer |-> call.writer, format |-> formatID]
    /\ UNCHANGED <<schem, heap, calls, file>>

NextDispatch ==
    \/ DoWriteFormat \/ DoWrite \/ DoExternalLitematica
    \/ DoDetect \/ DoRead \/ DoReadFormat

SpecDispatch == InitDispatch /\ [][NextDispatch]_vars

---------------------------------------------------------------------------
(* Properties of the dispatch surface, checked under SpecDispatch.         *)

\* C2: on the bytes a successful WriteFormat wrote, Detect returns an id
\* that is a key of the reader registry, and Read returns a schematic.
\* Detect finds no Version in the root that WriteV1 and WriteV3 wrap under
\* "Schematic", and answers "litematica", which is no key of the reader
\* registry, for the bytes of WriteV6; so this fails.
C2_DetectWhatIsWritten ==
    /\ (call.op = "Detect" /\ call.writer = "WriteFormat") =>
          /\ "id" \in DOMAIN res
          /\ res.id \in DOMAIN formatReaders
    /\ (call.op = "Read" /\ call.writer = "WriteFormat") => "s" \in DOMAIN res

\* C3: for a gzip NBT file whose root has Version and Regions, Detect
\* returns "litematica_v6" for Version 6, "litematica_v7" for Version 7 and
\* fails with the unsupported-Litematica-version error for every other
\* Version.  Detect returns "litematica" for 6 and 7, so this fails.
C3_DetectLitematica ==
    (/\ call.op = "Detect"
     /\ file.head = "gzip"
     /\ {"Version", "Regions"} \subseteq DOMAIN file.root)
    => CASE file.root.Version = 6 -> res = [id |-> "litematica_v6"]
         [] file.root.Version = 7 -> res = [id |-> "litematica_v7"]
         [] OTHER -> res = [err |-> "unsupported Litematica version"]

\* C4: WriteFormat with the id "litematica" succeeds and writes a root with
\* Version = 6, and Write on a schematic whose Format() is "litematica"
\* succeeds.  "litematica" is no key of the writer registry, so this fails.
C4_LitematicaAlias ==
    /\ (call.op = "WriteFormat" /\ call.format = "litematica") =>
          /\ res = [ok |-> TRUE]
          /\ file # NoFile
          /\ file.root.Version = 6
    /\ (call.op = "Write" /\ schem.formatID = "litematica") => res = [ok |-> TRUE]

---------------------------------------------------------------------------
(* SpecEntities: a caller holds a schematic with block entities stored by  *)
(* SetBlockEntity, writes it with a Sponge writer and reads the bytes back *)
(* with a Sponge reader.                                                   *)

\* The Data mappings of the block entities the caller holds.
EntityData == {EmptyMap, [Lock |-> "abc"], [Id |-> "minecraft:furnace"], [Pos |-> "here"]}

\* The dimensions of the source schematics.
EntityDims == {<<1, 1, 1>>, <<MaxDim, 1, MaxDim>>}

\* The SetBlockEntity calls that build a source schematic: at most
\* MaxBlocks calls, each with an in-range coordinate and one of the objects
\* of the heap h.
EntityPlacements(d, h) ==
    UNION {[1..n -> ((0..(d[1] - 1)) \X (0..(d[2] - 1)) \X (0..(d[3] - 1))) \X DOMAIN h] :
              n \in 0..MaxBlocks}

\* The schematic and the heap after the SetBlockEntity calls of p.
RECURSIVE placeEntities(_, _, _)
placeEntities(s, h, p) ==
    IF p = <<>> THEN [s |-> s, heap |-> h]
    ELSE LET r == SetBlockEntity(s, h, p[1][1][1], p[1][1][2], p[1][1][3], p[1][2])
         IN  placeEntities(r.s, r.heap, Tail(p))

InitEntities ==
    /\ \E d \in EntityDims, a \in EntityData, b \in EntityData :
          LET h == << NewBlockEntity("minecraft:chest", 0, 0, 0, a),
                      NewBlockEntity("minecraft:sign", 0, 0, 0, b) >>
          IN  \E p \in EntityPlacements(d, h) :
                 /\ schem = placeEntities(New(d[1], d[2], d[3], ""), h, p).s
                 /\ heap = placeEntities(New(d[1], d[2], d[3], ""), h, p).heap
    /\ call = [op |-> "New", writer |-> "none"]
    /\ calls = 0
    /\ file = NoFile
    /\ res = NoResult

NextEntities ==
    \/ DoWriteV1 \/ DoWriteV2 \/ DoWriteV3
    \/ DoReadV1 \/ DoReadV2 \/ DoReadV3

SpecEntities == InitEntities /\ [][NextEntities]_vars

---------------------------------------------------------------------------
(* Properties of the block-entity records, checked under SpecEntities.     *)

\* The coordinates of s that hold a block entity.
EntityCoords(s) == {c \in InRangeCoords(s) : BlockEntity(s, c[1], c[2], c[3]) # NilRef}

\* C11: for every block entity stored at an in-range coordinate, whatever
\* keys its Data holds, WriteV2 emits a record whose Pos is the coordinate,
\* and ReadV2(WriteV2(s)) has a block entity at the same coordinate with the
\* same ID and the same Data, whose Data has neither the key Pos nor the
\* key Id.  The writer copies Data over the Pos and Id it has just set, so
\* a Data with one of these keys replaces them, and this fails.
C11_BlockEntityRoundTrip ==
    /\ call.writer = "WriteV2" =>
          \A c \in EntityCoords(schem) :
              \E i \in DOMAIN Field(file.root, "BlockEntities", <<>>) :
                  file.root.BlockEntities[i]["Pos"] = NBTList(c)
    /\ <<call.writer, call.op>> = <<"WriteV2", "ReadV2">> =>
          /\ "s" \in DOMAIN res
          /\ \A c \in EntityCoords(schem) :
                LET be == heap[BlockEntity(schem, c[1], c[2], c[3])]
                    ref == BlockEntity(res.s, c[1], c[2], c[3])
                IN  /\ ref # NilRef
                    /\ res.heap[ref].ID = be.ID
                    /\ res.heap[ref].Data = be.Data
                    /\ <<res.heap[ref].X, res.heap[ref].Y, res.heap[ref].Z>> = c
          /\ \A i \in DOMAIN res.heap : DOMAIN res.heap[i].Data \cap {"Pos", "Id"} = {}

---------------------------------------------------------------------------
(* SpecVarInt: a caller encodes a value or a sequence of values as VarInts *)
(* and decodes the bytes.                                                  *)

\* The values of the sequences: the least and the greatest value of every
\* encoded length from 1 to 5 bytes that an integer of the model holds.
VarIntValues ==
    {0, 1, 127, 128, 255, 16383, 16384, 2097151, 2097152, 268435455, 268435456,
     2147483647}

\* The single values, by their bits: 0, 127, 128, 2^28 - 1, 2^28,
\* 2^31 - 1, 2^31 and 2^32 - 1.
WideValues == {{}, 0..6, {7}, 0..27, {28}, 0..30, {31}, 0..31}

VarIntSeqs == UNION {[1..n -> VarIntValues] : n \in 0..MaxLen}

InitVarInt ==
    /\ \E V \in VarIntSeqs, w \in WideValues :
          call = [op |-> "New", values |-> V, value |-> w]
    /\ schem = New(1, 1, 1, "")
    /\ heap = <<>>
    /\ calls = 0
    /\ file = NoFile
    /\ res = NoResult

\* base.EncodeVarInt(value)
DoEncodeVarInt ==
    /\ file' = [bytes |-> EncodeVarIntWide(call.value)]
    /\ call' = [call EXCEPT !.op = "EncodeVarInt"]
    /\ res' = NoResult
    /\ UNCHANGED <<schem, heap, calls>>

\* base.DecodeVarInt(data) on the bytes of EncodeVarInt
DoDecodeVarInt ==
    /\ call.op = "EncodeVarInt"
    /\ res' = DecodeVarIntWide(file.bytes)
    /\ call' = [call EXCEPT !.op = "DecodeVarInt"]
    /\ UNCHANGED <<schem, heap, calls, file>>

\* base.EncodeVarIntArray(values)
DoEncodeVarIntArray ==
    /\ file' = [bytes |-> EncodeVarIntArray(call.values)]
    /\ call' = [call EXCEPT !.op = "EncodeVarIntArray"]
    /\ res' = NoResult
    /\ UNCHANGED <<schem, heap, calls>>

\* base.DecodeVarIntArray(data, len(values)) on the bytes of
\* EncodeVarIntArray
DoDecodeVarIntArray ==
    /\ call.op = "EncodeVarIntArray"
    /\ res' = DecodeVarIntArray(file.bytes, Len(call.values))
    /\ call' = [call EXCEPT !.op = "DecodeVarIntArray"]
    /\ UNCHANGED <<schem, heap, calls, file>>

NextVarInt ==
    \/ DoEncodeVarInt \/ DoDecodeVarInt
    \/ DoEncodeVarIntArray \/ DoDecodeVarIntArray

SpecVarInt == InitVarInt /\ [][NextVarInt]_vars

---------------------------------------------------------------------------
(* Properties of the VarInt codec, checked under SpecVarInt.               *)

\* C12: for 0 <= v < 2^32, DecodeVarInt(EncodeVarInt(v)) is v with no
\* error and a consumed length equal to the encoded length, which is
\* between 1 and 5 bytes; and DecodeVarIntArray(EncodeVarIntArray(V), |V|)
\* is V, every byte consumed.
C12_VarIntRoundTrip ==
    /\ call.op \in {"EncodeVarInt", "DecodeVarInt"} => Len(file.bytes) \in 1..5
    /\ call.op = "DecodeVarInt" =>
          res = [value |-> call.value, length |-> Len(file.bytes)]
    /\ call.op = "DecodeVarIntArray" =>
          res = [values |-> call.values, offset |-> Len(file.bytes)]

\* C12's case: a sequence with a five-byte value after a one-byte value has
\* been decoded, or the single value 2^32 - 1 has.
C12_Witness ==
    \/ /\ call.op = "DecodeVarIntArray"
       /\ call.values = <<127, 2147483647>>
       /\ Len(file.bytes) = 6
    \/ /\ call.op = "DecodeVarInt"
       /\ call.value = 0..31
       /\ file.bytes = <<255, 255, 255, 255, 15>>

---------------------------------------------------------------------------
(* SpecPacking: a caller packs a sequence of values of a bit width into a  *)
(* long array, with either packer, and unpacks it.                         *)

\* The bit widths.
BitWidths == 1..31

\* The values of width b in the sequences: 0, 1, the top bit alone and all
\* b bits.
PackValues(b) == {0, 1, 2^(b - 1), (2^(b - 1) - 1) + 2^(b - 1)}

InitPacking ==
    /\ \E b \in BitWidths, n \in 0..MaxPacked :
          \E V \in [1..n -> PackValues(b)] :
              call = [op |-> "New", values |-> V, bitsPerEntry |-> b]
    /\ schem = New(1, 1, 1, "")
    /\ heap = <<>>
    /\ calls = 0
    /\ file = NoFile
    /\ res = NoResult

\* base.PackLongArray(values, bitsPerEntry)
DoPackLongArray ==
    /\ file' = [longs |-> PackLongArray(call.values, call.bitsPerEntry)]
    /\ call' = [call EXCEPT !.op = "PackLongArray"]
    /\ res' = NoResult
    /\ UNCHANGED <<schem, heap, calls>>

\* base.UnpackLongArray(longs, bitsPerEntry, len(values)) on the longs of
\* PackLongArray
DoUnpackLongArray ==
    /\ call.op = "PackLongArray"
    /\ res' = [values |-> UnpackLongArray(file.longs, call.bitsPerEntry, Len(call.values))]
    /\ call' = [call EXCEPT !.op = "UnpackLongArray"]
    /\ UNCHANGED <<schem, heap, calls, file>>

\* base.PackLongArrayTight(values, bitsPerEntry)
DoPackLongArrayTight ==
    /\ file' = [longs |-> PackLongArrayTight(call.values, call.bitsPerEntry)]
    /\ call' = [call EXCEPT !.op = "PackLongArrayTight"]
    /\ res' = NoResult
    /\ UNCHANGED <<schem, heap, calls>>

\* base.UnpackLongArrayTight(longs, bitsPerEntry, len(values)) on the longs
\* of PackLongArrayTight
DoUnpackLongArrayTight ==
    /\ call.op = "PackLongArrayTight"
    /\ res' = [values |-> UnpackLongArrayTight(file.longs, call.bitsPerEntry,
                                               Len(call.values))]
    /\ call' = [call EXCEPT !.op = "UnpackLongArrayTight"]
    /\ UNCHANGED <<schem, heap, calls, file>>

NextPacking ==
    \/ DoPackLongArray \/ DoUnpackLongArray
    \/ DoPackLongArrayTight \/ DoUnpackLongArrayTight

SpecPacking == InitPacking /\ [][NextPacking]_vars

---------------------------------------------------------------------------
(* Properties of the packers, checked under SpecPacking.                   *)

\* C13: for every bit width b in 1..31 and every sequence V of values below
\* 2^b, UnpackLongArray(PackLongArray(V, b), b, |V|) = V and
\* UnpackLongArrayTight(PackLongArrayTight(V, b), b, |V|) = V.
C13_PackRoundTrip ==
    call.op \in {"UnpackLongArray", "UnpackLongArrayTight"} => res.values = call.values

\* C13's case: the tight packer has split a value with all its bits set
\* across two longs, bit 63 of the first long among them, and the value has
\* been unpacked.
C13_Witness ==
    /\ call.op = "UnpackLongArrayTight"
    /\ call.bitsPerEntry = 31
    /\ Len(call.values) >= 3
    /\ call.values[3] = 2147483647
    /\ Len(file.longs) = 2
    /\ {62, 63} \subseteq file.longs[1]
    /\ Mask(29) \subseteq file.longs[2]

\* C13's case for the standard packer: a value with its top bit set lies
\* in bit 63 of a long and has been unpacked.
C13_WitnessStandard ==
    /\ call.op = "UnpackLongArray"
    /\ call.bitsPerEntry = 16
    /\ Len(call.values) = 4
    /\ 63 \in file.longs[1]

---------------------------------------------------------------------------
(* SpecPalette: a caller makes a palette with NewPalette or                *)
(* NewPaletteWithAir, adds block states to it and looks indices up.  call  *)
(* keeps the blocks added and the indices returned, in call order.         *)

\* The stairs and the cake with the property value given as a string.
StairsLitString ==
    BlockState(<<"minecraft:oak_stairs">>,
               [k \in {<<"facing">>, <<"lit">>} |->
                  IF k = <<"facing">> THEN StringValue(<<"north">>)
                  ELSE StringValue(<<"true">>)])
CakeLevelString ==
    BlockState(<<"minecraft:cake">>, [k \in {<<"level">>} |-> StringValue(<<"7">>)])

\* The block states callers add, listed (two of them differ only in the
\* type of a property value).
PaletteBlocks == <<Stone, Air, Stairs, StairsLitString, Cake, CakeLevelString>>

InitPalette ==
    /\ \/ /\ res = [palette |-> NewPalette, idx |-> -1, block |-> Nil]
          /\ call = [op |-> "NewPalette", added |-> <<>>, indices |-> <<>>]
       \/ /\ res = [palette |-> NewPaletteWithAir, idx |-> -1, block |-> Nil]
          /\ call = [op |-> "NewPaletteWithAir", added |-> <<Air>>, indices |-> <<0>>]
    /\ schem = New(1, 1, 1, "")
    /\ heap = <<>>
    /\ calls = 0
    /\ file = NoFile

\* p.Add(block)
DoAdd ==
    /\ calls < MaxAdds
    /\ \E b \in DOMAIN PaletteBlocks :
          LET block == PaletteBlocks[b] IN
          /\ res' = [palette |-> Add(res.palette, block).palette,
                     idx |-> Add(res.palette, block).idx,
                     block |-> Nil]
          /\ call' = [op |-> "Add",
                      added |-> Append(call.added, block),
                      indices |-> Append(call.indices, Add(res.palette, block).idx)]
    /\ calls' = calls + 1
    /\ UNCHANGED <<schem, heap, file>>

\* p.Get(idx)
DoGet ==
    /\ call.op = "Add"
    /\ \E idx \in -1..MaxAdds :
          res' = [res EXCEPT !.idx = idx, !.block = Get(res.palette, idx)]
    /\ call' = [call EXCEPT !.op = "Get"]
    /\ UNCHANGED <<schem, heap, calls, file>>

NextPalette == DoAdd \/ DoGet

SpecPalette == InitPalette /\ [][NextPalette]_vars

---------------------------------------------------------------------------
(* Properties of the palette, checked under SpecPalette.                   *)

\* The BlockState equality relation: the same name, the same key set and
\* for every key the same value of the same type.
EqualStates(a, b) ==
    /\ a.Name = b.Name
    /\ DOMAIN a.Properties = DOMAIN b.Properties
    /\ \A k \in DOMAIN a.Properties : a.Properties[k] = b.Properties[k]

\* C14: two block states added to a palette have the same palette key if
\* and only if they are equal block states, and Add gives two unequal
\* states different indices.  The key prints a value without its type, so
\* the boolean true and the string "true" (or 7 and "7") share a key and an
\* index, and this fails.
C14_KeyEquality ==
    \A i \in DOMAIN call.added, j \in DOMAIN call.added :
        /\ (blockStateKey(call.added[i]) = blockStateKey(call.added[j]))
              <=> EqualStates(call.added[i], call.added[j])
        /\ call.indices[i] = call.indices[j]
              => EqualStates(call.added[i], call.added[j])

\* The canonical strings of the first n blocks added.
StringsAdded(n) == {String(call.added[i]) : i \in 1..n}

\* C15, the state part: the indices handed out are 0..Size()-1 in order of
\* first insertion, a string added again got the index it had, Get of the
\* index returned has the canonical string of the block added, Size is the
\* number of distinct canonical strings added, and a palette made by
\* NewPaletteWithAir has minecraft:air at index 0.
C15_IndicesInOrder ==
    LET p == res.palette
        n == Len(call.added)
    IN  /\ {call.indices[i] : i \in 1..n} = 0..(Size(p) - 1)
        /\ Size(p) = Cardinality(StringsAdded(n))
        /\ \A i \in 1..n :
              /\ String(call.added[i]) \notin StringsAdded(i - 1)
                    => call.indices[i] = Cardinality(StringsAdded(i - 1))
              /\ \A j \in 1..(i - 1) :
                    String(call.added[j]) = String(call.added[i])
                        => call.indices[i] = call.indices[j]
              /\ String(Get(p, call.indices[i])) = String(call.added[i])
        /\ (n > 0 /\ call.added[1] = Air /\ call.indices[1] = 0)
              => Get(p, 0).Name = <<"minecraft:air">>
        /\ call.op = "Get" =>
              res.block = (IF res.idx \in 0..(Size(p) - 1) THEN Blocks(p)[res.idx + 1]
                           ELSE Nil)

\* C15: the state part always holds, and an Add of a state whose canonical
\* string is already in the palette returns the index it has and leaves
\* the palette as it was.
C15_PaletteIndices ==
    /\ []C15_IndicesInOrder
    /\ [][(/\ call'.op = "Add"
           /\ Len(call'.added) > Len(call.added)
           /\ String(call'.added[Len(call'.added)]) \in StringsAdded(Len(call.added)))
          => /\ res'.palette = res.palette
             /\ \E j \in DOMAIN call.added :
                   /\ String(call.added[j]) = String(call'.added[Len(call'.added)])
                   /\ res'.idx = call.indices[j]]_vars

\* C15's case: on a palette made with air, stone was added and then air
\* again, which returned index 0 and left two entries.
C15_Witness ==
    /\ call.op = "Add"
    /\ call.added = <<Air, Stone, Air>>
    /\ call.indices = <<0, 1, 0>>
    /\ Size(res.palette) = 2

---------------------------------------------------------------------------
(* SpecFiles: a caller holds a file that some other program wrote (a       *)
(* Litematica file with one region, a Sponge file) and reads it with the   *)
(* readers.                                                                *)

\* The Size of the region of a Litematica file: positive, negative and
\* zero components.
RegionSizes == {<<1, 1, 1>>, <<2, 1, 1>>, <<-2, 1, 1>>, <<0, 1, 1>>, <<1, 0, -2>>}

\* The names of the entries of a region's palette: the four air variants
\* and a block.
PaletteNames ==
    {<<>>, <<"minecraft:air">>, <<"minecraft:void_air">>, <<"minecraft:cave_air">>,
     <<"minecraft:stone">>}

\* The palettes of a region: at most MaxBlocks names in any order.
RegionPalettes == UNION {[1..n -> PaletteNames] : n \in 0..MaxBlocks}

\* The packed indices of a region: any two-bit value for every cell,
\* whether the palette has an entry for it or not.
RegionIndices(size) == [1..(Abs(size[1]) * Abs(size[2]) * Abs(size[3])) -> 0..3]

\* A Litematica file of the version with one region "Region".
RegionFile(version, size, names, indices) ==
    [head |-> "gzip",
     root |-> [Version |-> version,
               MinecraftDataVersion |-> 3465,
               Regions |-> [Region |->
                  [Position |-> [x |-> -4, y |-> 64, z |-> 7],
                   Size |-> [x |-> size[1], y |-> size[2], z |-> size[3]],
                   BlockStatePalette |-> [i \in 1..Len(names) |-> [Name |-> names[i]]],
                   BlockStates |-> PackLongArrayTight(indices, 2)]]]]

\* The declared dimensions of a Sponge file: positive, zero and negative
\* components.
DeclaredDims == {<<1, 1, 1>>, <<2, 1, 1>>, <<0, 1, 1>>, <<1, -1, 1>>, <<1, 1, 0>>, <<-1, -1, -1>>}

\* The fields of a Sponge file of the version with the declared dimensions;
\* every cell has palette index 0, a one-byte VarInt.
SpongeFields(version, d) ==
    [Version |-> version, DataVersion |-> 3465,
     Width |-> d[1], Height |-> d[2], Length |-> d[3],
     PaletteMax |-> 0,
     Palette |-> [name \in {<<"minecraft:stone">>} |-> 0],
     BlockData |-> [i \in 1..Max(d[1] * d[2] * d[3], 0) |-> 0]]

\* A Sponge file: versions 1 and 2 keep the fields in the root, version 3
\* under "Schematic" with the palette and the data under "Blocks".
SpongeFile(version, d) ==
    [head |-> "gzip",
     root |-> IF version = 3
              THEN [Schematic |->
                      [Version |-> 3, DataVersion |-> 3465,
                       Width |-> d[1], Height |-> d[2], Length |-> d[3],
                       Blocks |-> [Palette |-> SpongeFields(3, d).Palette,
                                   Data |-> SpongeFields(3, d).BlockData]]]
              ELSE SpongeFields(version, d)]

\* An MCEdit file with the declared dimensions: the id of every cell from
\* ids, meta 0, and the WorldEdit offset.
MceditFile(d, ids) ==
    [head |-> "gzip",
     root |-> [Width |-> d[1], Height |-> d[2], Length |-> d[3],
               Materials |-> "Alpha",
               Blocks |-> ids,
               Data |-> [i \in 1..Len(ids) |-> 0],
               WEOffsetX |-> -5, WEOffsetY |-> 64, WEOffsetZ |-> 7]]

InitFiles ==
    /\ \/ \E version \in {6, 7}, size \in RegionSizes, names \in RegionPalettes :
             \E indices \in RegionIndices(size) :
                file = RegionFile(version, size, names, indices)
       \/ \E version \in {1, 2, 3}, d \in DeclaredDims : file = SpongeFile(version, d)
       \/ \E d \in DeclaredDims :
             \E ids \in [1..Max(d[1] * d[2] * d[3], 0) -> {0, 1, 3}] : file = MceditFile(d, ids)
    /\ schem = New(1, 1, 1, "")
    /\ heap = <<>>
    /\ call = [op |-> "New", writer |-> "External"]
    /\ calls = 0
    /\ res = NoResult

\* mcedit.Read(r) on the file
DoMceditRead ==
    /\ file # NoFile
    /\ res' = mceditRead(file)
    /\ call' = [call EXCEPT !.op = "mcedit.Read"]
    /\ UNCHANGED <<schem, heap, calls, file>>

NextFiles ==
    \/ DoReadV1 \/ DoReadV2 \/ DoReadV3
    \/ DoReadV6 \/ DoLitematicaRead
    \/ DoMceditRead

SpecFiles == InitFiles /\ [][NextFiles]_vars

---------------------------------------------------------------------------
(* Properties of the readers on files of any content, checked under        *)
(* SpecFiles.                                                              *)

\* C16: after a Litematica read (ReadV6, and the single-function Read), no
\* entry of the block map of the schematic returned has an air-variant
\* name, whatever the palette and the packed indices of the region.
C16_LitematicaNoAir ==
    (call.op \in {"ReadV6", "Read"} /\ "s" \in DOMAIN res)
        => \A k \in DOMAIN res.s.blocks :
              res.s.blocks[k].Name \notin {<<>>, <<"minecraft:air">>, <<"minecraft:void_air">>,
                                          <<"minecraft:cave_air">>}

\* C16's case: ReadV6 has read a region of two cells whose palette is cave
\* air and stone, the first cell cave air and the second stone, and
\* returned a schematic of one cell that holds the stone.
C16_Witness ==
    /\ call.op = "ReadV6"
    /\ "s" \in DOMAIN res
    /\ Abs(file.root.Regions.Region.Size.x) = 2
    /\ file.root.Regions.Region.BlockStatePalette
          = <<[Name |-> <<"minecraft:cave_air">>], [Name |-> <<"minecraft:stone">>]>>
    /\ UnpackLongArrayTight(file.root.Regions.Region.BlockStates, 2, 2) = <<0, 1>>
    /\ DimsOf(res.s) = <<1, 1, 1>>
    /\ DOMAIN res.s.blocks = {0}

\* The size a file declares to the reader that made the last call: the
\* Size of the region the Litematica readers took, the Width, Height and
\* Length of the root (ReadV1, ReadV2, mcedit.Read) or of "Schematic"
\* (ReadV3).
DeclaredSize ==
    IF call.op \in {"ReadV6", "Read"}
    THEN LET size == Field(Field(Field(file.root, "Regions", EmptyMap), call.region, EmptyMap),
                           "Size", ZeroVec)
         IN  <<size.x, size.y, size.z>>
    ELSE LET data == IF call.op = "ReadV3" THEN Field(file.root, "Schematic", EmptyMap)
                     ELSE file.root
         IN  <<Field(data, "Width", 0), Field(data, "Height", 0), Field(data, "Length", 0)>>

\* C17: no Sponge, MCEdit or Litematica reader returns a schematic with a
\* non-positive dimension; a file whose declared size has a zero component
\* (or, for Sponge and MCEdit, a negative one) gets the invalid-dimensions
\* error and no schematic.  The Litematica readers have no such test: a
\* region with a zero Size component comes back as a schematic with a zero
\* dimension, so this fails.
C17_InvalidDimensions ==
    call.op # "New" =>
        /\ "s" \in DOMAIN res =>
              (res.s.width > 0 /\ res.s.height > 0 /\ res.s.length > 0)
        /\ (/\ call.op \in {"ReadV6", "Read"}
            /\ "err" \notin DOMAIN res \/ res.err \notin {"gzip decompress",
                     "expected version 6", "unsupported litematica version",
                     "no regions found in litematica file"}
            /\ \E i \in 1..3 : DeclaredSize[i] = 0)
              => res = [err |-> "invalid dimensions"]
        /\ (/\ call.op \in {"ReadV1", "ReadV2", "ReadV3", "mcedit.Read"}
            /\ "err" \notin DOMAIN res \/ res.err \notin {"gzip decompress", "expected version"}
            /\ \E i \in 1..3 : DeclaredSize[i] <= 0)
              => res = [err |-> "invalid dimensions"]

---------------------------------------------------------------------------
(* SpecAxiom: a caller writes a schematic as an Axiom blueprint and reads  *)
(* the blueprint back, or reads a blueprint that another program wrote.    *)

\* The dimensions, the cell contents and the offsets of the source
\* schematics: every cell is empty or holds one of the blocks.
AxiomDims == {<<1, 1, 1>>, <<2, 1, 2>>, <<1, 2, 1>>}
AxiomBlocks == {Nil, Stone, Stairs, Air}
AxiomOffsets == {<<0, 0, 0>>, <<-1, 0, -1>>, <<-17, 15, 16>>, <<15, -16, 31>>}

\* An offset at the two ends of int32: a schematic there holds at most one
\* block, so that the box of its blueprint has a width within int32.
EdgeOffsets == {<<MaxInt32, MinInt32, -32>>}

\* The schematic after New(d), a SetBlock call for every cell that fill
\* gives a block, SetOffset(o) and SetDataVersion(3465).
Filled(d, fill, o) ==
    LET n == d[1] * d[2] * d[3]
        F[i \in 0..n] ==
            IF i = 0 THEN New(d[1], d[2], d[3], "")
            ELSE LET c == CellAt(d[1], d[3], i - 1)
                     prev == F[i - 1]
                 IN  SetBlock(prev, c[1], c[2], c[3], fill[i])
    IN  SetDataVersion(SetOffset(F[n], o[1], o[2], o[3]), 3465)

\* The chunks of the blueprints other programs wrote: structure_void and
\* stone in the palette, one or two stone entries.
ForeignChunks ==
    {[X |-> k[1], Y |-> k[2], Z |-> k[3],
      BlockStates |-> [palette |-> <<BlockState(defaultEmptyBlock, EmptyMap), Stone>>,
                       data |-> PackChunkData([i \in cells |-> 1], 4)]] :
        k \in {<<0, 0, 0>>, <<-1, 0, -2>>}, cells \in {{0}, {17, 4095}}}

\* Their block-entity records: int32 coordinates with and without an id
\* and further keys, coordinates that are not int32, and upper-case keys.
ForeignBlockEntities ==
    {[x |-> Int32Value(-17), y |-> Int32Value(3), z |-> Int32Value(0),
      id |-> NBTString("minecraft:chest"), Lock |-> NBTString("abc")],
     [x |-> Int32Value(16), y |-> Int32Value(0), z |-> Int32Value(-1)],
     [x |-> Int32Value(-17), y |-> Int32Value(3), z |-> Int32Value(0),
      id |-> NBTString("minecraft:sign")],
     [x |-> Int64Value(40), y |-> Int64Value(40), z |-> Int64Value(40),
      id |-> NBTString("minecraft:chest")],
     [X |-> Int32Value(-40), Y |-> Int32Value(-40), Z |-> Int32Value(-40)]}

\* Their entity records: a []float64 position (in halves: 0.5, -1.5, 16.5
\* and 20, 1, -33), a position of another type, and no position.
ForeignEntities ==
    {[Pos |-> Float64s(<<1, -3, 33>>), id |-> NBTString("minecraft:pig")],
     [Pos |-> Float64s(<<40, 2, -66>>)],
     [Pos |-> NBTList(<<50, 50, 50>>)],
     [id |-> NBTString("minecraft:cow")]}

\* The sequences of at most n members of S.
SeqsUpTo(S, n) == UNION {[1..k -> S] : k \in 0..n}

\* A blueprint another program wrote.
ForeignFile(chunks, blockEntities, entities) ==
    [head |-> "axiom",
     header |-> [Version |-> 1, BlockCount |-> 0, ContainsAir |-> FALSE],
     root |-> omitEmpty("BlockEntities", blockEntities) @@ omitEmpty("Entities", entities)
              @@ [DataVersion |-> 3465, BlockRegion |-> chunks]]

InitAxiom ==
    /\ \/ /\ \E d \in AxiomDims, o \in AxiomOffsets \cup EdgeOffsets :
               \E fill \in [1..(d[1] * d[2] * d[3]) -> AxiomBlocks] :
                  /\ o \in EdgeOffsets => Cardinality({i \in DOMAIN fill : fill[i] # Nil}) <= 1
                  /\ schem = Filled(d, fill, o)
          /\ file = NoFile
          /\ call = [op |-> "New", writer |-> "none"]
       \/ /\ schem = New(1, 1, 1, "")
          /\ \E chunks \in SeqsUpTo(ForeignChunks, 1),
                blockEntities \in SeqsUpTo(ForeignBlockEntities, MaxBlocks),
                entities \in SeqsUpTo(ForeignEntities, 1) :
               file = ForeignFile(chunks, blockEntities, entities)
          /\ call = [op |-> "New", writer |-> "External"]
    /\ heap = <<>>
    /\ calls = 0
    /\ res = NoResult

\* axiom.Write(w, schem)
DoAxiomWrite ==
    /\ call.op = "New"
    /\ file = NoFile
    /\ file' = axiomWrite(schem, heap)
    /\ call' = [op |-> "axiom.Write", writer |-> "axiom.Write"]
    /\ res' = NoResult
    /\ UNCHANGED <<schem, heap, calls>>

\* axiom.Read(r) on the blueprint
DoAxiomRead ==
    /\ file # NoFile
    /\ res' = axiomRead(file)
    /\ call' = [op |-> "axiom.Read", writer |-> call.writer]
    /\ UNCHANGED <<schem, heap, calls, file>>

NextAxiom == DoAxiomWrite \/ DoAxiomRead

SpecAxiom == InitAxiom /\ [][NextAxiom]_vars

\* The cells of a schematic that Write takes for occupied.
OccupiedCells(s) ==
    {c \in (0..(s.width - 1)) \X (0..(s.height - 1)) \X (0..(s.length - 1)) :
        /\ Block(s, c[1], c[2], c[3]) # Nil
        /\ Block(s, c[1], c[2], c[3]).Name \notin
              {<<>>, <<"minecraft:air">>, <<"minecraft:void_air">>,
               <<"minecraft:cave_air">>, <<"minecraft:structure_void">>}}

\* local + offset lies within int32.
WithinInt32(local, offset) ==
    IF offset > 0 THEN local <= MaxInt32 - offset ELSE local >= MinInt32 - offset

\* The non-zero entries of a chunk of a blueprint, by data index.
ChunkEntries(chunk) ==
    UnpackChunkData(chunk.BlockStates.data,
                    IF Len(chunk.BlockStates.palette) <= 16 THEN 4 ELSE 5, 4096)

\* The chunks of a blueprint with the coordinates k.
ChunksAt(f, k) ==
    {i \in 1..Len(f.root.BlockRegion) :
        LET chunk == f.root.BlockRegion[i] IN <<chunk.X, chunk.Y, chunk.Z>> = k}

\* floor(c / 16) and c mod 16 in [0, 16).
FloorDiv16(c) == c \div 16
FloorMod16(c) == c % 16

\* C18: after axiom.Write, every occupied cell whose world coordinate
\* c = local + offset lies within int32 on each axis is found in the one
\* chunk with the coordinates floor(c/16), at data index
\* localY*256 + localZ*16 + localX with local = c mod 16 in [0,16), so that
\* chunk*16 + local = c, and the entry there is the cell's block; no two
\* occupied cells share a (chunk, index): the chunks hold as many entries
\* as there are occupied cells.
C18_FlooredPlacement ==
    call.op = "axiom.Write" =>
        /\ \A c \in OccupiedCells(schem) :
              (/\ WithinInt32(c[1], schem.offsetX)
               /\ WithinInt32(c[2], schem.offsetY)
               /\ WithinInt32(c[3], schem.offsetZ)) =>
                 LET wx == c[1] + schem.offsetX
                     wy == c[2] + schem.offsetY
                     wz == c[3] + schem.offsetZ
                     at == ChunksAt(file, <<FloorDiv16(wx), FloorDiv16(wy), FloorDiv16(wz)>>)
                     idx == FloorMod16(wy) * 256 + FloorMod16(wz) * 16 + FloorMod16(wx)
                 IN  /\ Cardinality(at) = 1
                     /\ \A i \in at :
                          LET chunk == file.root.BlockRegion[i]
                              entries == ChunkEntries(chunk)
                          IN  /\ idx \in DOMAIN entries
                              /\ chunk.BlockStates.palette[entries[idx] + 1]
                                    = Block(schem, c[1], c[2], c[3])
        /\ LET total[i \in 0..Len(file.root.BlockRegion)] ==
                   IF i = 0 THEN 0
                   ELSE total[i - 1]
                        + Cardinality(DOMAIN ChunkEntries(file.root.BlockRegion[i]))
           IN  total[Len(file.root.BlockRegion)] = Cardinality(OccupiedCells(schem))
        /\ \A i, j \in 1..Len(file.root.BlockRegion) :
              LET a == file.root.BlockRegion[i]
                  b == file.root.BlockRegion[j]
              IN  <<a.X, a.Y, a.Z>> = <<b.X, b.Y, b.Z>> => i = j

\* C18 witness: a written schematic with occupied cells on both sides of
\* zero on two axes, all of them within int32.
C18_Witness ==
    /\ call.op = "axiom.Write"
    /\ schem.offsetX = -1 /\ schem.offsetZ = -1
    /\ Cardinality(OccupiedCells(schem)) = 4
    /\ Len(file.root.BlockRegion) = 4

\* C18 witness: an occupied cell at the least int32 coordinate.
C18_WitnessMinInt32 ==
    /\ call.op = "axiom.Write"
    /\ schem.offsetY = MinInt32
    /\ <<0, 0, 0>> \in OccupiedCells(schem)
    /\ file.root.BlockRegion[1].Y = -134217728

\* The schematic of the scenario: 2x1x2 at offset (-1,0,-1), all four cells
\* occupied.
SpansOrigin ==
    /\ <<schem.width, schem.height, schem.length>> = <<2, 1, 2>>
    /\ <<schem.offsetX, schem.offsetY, schem.offsetZ>> = <<-1, 0, -1>>
    /\ Cardinality(OccupiedCells(schem)) = 4

\* The chunk coordinates of the blueprint, in the order written.
ChunkCoords(f) ==
    [i \in 1..Len(f.root.BlockRegion) |->
        <<f.root.BlockRegion[i].X, f.root.BlockRegion[i].Y, f.root.BlockRegion[i].Z>>]

\* C19 as stated: writing the schematic that spans (-1,0,-1) to (0,0,0)
\* gives exactly two chunks, (-1,0,-1) and (0,0,0), and a header BlockCount
\* of 4, and reading the blueprint gives four blocks.
C19_TwoChunks ==
    (SpansOrigin /\ call.op \in {"axiom.Write", "axiom.Read"}) =>
        /\ Len(file.root.BlockRegion) = 2
        /\ {ChunkCoords(file)[i] : i \in 1..Len(file.root.BlockRegion)}
              = {<<-1, 0, -1>>, <<0, 0, 0>>}
        /\ file.header.BlockCount = 4
        /\ call.op = "axiom.Read" =>
              ("s" \in DOMAIN res /\ Cardinality(DOMAIN res.s.blocks) = 4)

\* C19 amended: writing that schematic gives exactly four chunks, with the
\* chunk coordinates (-1,0,-1), (0,0,-1), (-1,0,0) and (0,0,0), and a header
\* BlockCount of 4, and reading the blueprint gives four blocks.
C19_FourChunks ==
    (SpansOrigin /\ call.op \in {"axiom.Write", "axiom.Read"}) =>
        /\ Len(file.root.BlockRegion) = 4
        /\ {ChunkCoords(file)[i] : i \in 1..Len(file.root.BlockRegion)}
              = {<<-1, 0, -1>>, <<0, 0, -1>>, <<-1, 0, 0>>, <<0, 0, 0>>}
        /\ file.header.BlockCount = 4
        /\ call.op = "axiom.Read" =>
              ("s" \in DOMAIN res /\ Cardinality(DOMAIN res.s.blocks) = 4)

\* C19 witness: the blueprint of the scenario has been written and read.
C19_Witness ==
    /\ SpansOrigin
    /\ call.op = "axiom.Read"
    /\ "s" \in DOMAIN res

\* The absolute positions of the non-empty entries of the chunks of a
\* blueprint.
FileBlocks(f) ==
    UNION {{<<chunk.X * 16 + (i % 16), chunk.Y * 16 + (i \div 256),
              chunk.Z * 16 + ((i \div 16) % 16)>> :
               i \in {j \in DOMAIN ChunkEntries(chunk) :
                        chunk.BlockStates.palette[ChunkEntries(chunk)[j] + 1].Name
                           \notin {<<>>, <<"minecraft:air">>, <<"minecraft:void_air">>,
                                   <<"minecraft:cave_air">>, <<"minecraft:structure_void">>}}} :
             chunk \in {f.root.BlockRegion[n] : n \in 1..Len(f.root.BlockRegion)}}

\* The records of a blueprint that carry int32 x, y and z, and their
\* positions.
Int32Records(f) ==
    LET raws == Field(f.root, "BlockEntities", <<>>)
    IN  {n \in 1..Len(raws) :
            \A k \in {"x", "y", "z"} : k \in DOMAIN raws[n] /\ raws[n][k].kind = "int32"}
RecordPos(f, n) ==
    LET raw == f.root.BlockEntities[n] IN <<raw["x"].i32, raw["y"].i32, raw["z"].i32>>

\* The two corners (floor and ceiling) of the entity positions of a
\* blueprint: h halves lie between the integers n with 2n <= h and
\* m with h <= 2m.
EntityCorners(f) ==
    LET raws == Field(f.root, "Entities", <<>>)
        lower(h) == CHOOSE n \in -40..40 : 2 * n <= h /\ h < 2 * n + 2
        upper(h) == CHOOSE m \in -40..40 : 2 * m - 2 < h /\ h <= 2 * m
    IN  UNION {{<<lower(raws[n].Pos.f[1]), lower(raws[n].Pos.f[2]), lower(raws[n].Pos.f[3])>>,
                <<upper(raws[n].Pos.f[1]), upper(raws[n].Pos.f[2]), upper(raws[n].Pos.f[3])>>} :
                 n \in {j \in 1..Len(raws) :
                          "Pos" \in DOMAIN raws[j] /\ raws[j].Pos.kind = "float64s"}}

\* Everything the bounding box is taken over.
FileContent(f) ==
    FileBlocks(f) \cup {RecordPos(f, n) : n \in Int32Records(f)} \cup EntityCorners(f)

\* C20: after axiom.Read of a blueprint with content, every dimension of
\* the schematic is at least 1 and the offset is the minimum corner of the
\* bounding box of the blocks, the block entities with int32 x, y, z and
\* the floor and ceiling of the entity positions; every such block-entity
\* record has its box-local coordinates inside the dimensions and a block
\* entity is stored there whose X, Y, Z are those coordinates; and every
\* block entity stored is stored under its own X, Y, Z, inside the
\* dimensions.
C20_AxiomBoundingBox ==
    (call.op = "axiom.Read" /\ FileContent(file) # {}) =>
        /\ "s" \in DOMAIN res
        /\ res.s.width >= 1 /\ res.s.height >= 1 /\ res.s.length >= 1
        /\ <<res.s.offsetX, res.s.offsetY, res.s.offsetZ>> = BoxMin(FileContent(file))
        /\ \A n \in Int32Records(file) :
              LET p == RecordPos(file, n)
                  lx == p[1] - res.s.offsetX
                  ly == p[2] - res.s.offsetY
                  lz == p[3] - res.s.offsetZ
                  be == BlockEntity(res.s, lx, ly, lz)
              IN  /\ ~OutOfBounds(res.s, lx, ly, lz)
                  /\ be # NilRef
                  /\ <<res.heap[be].X, res.heap[be].Y, res.heap[be].Z>> = <<lx, ly, lz>>
        /\ \A idx \in DOMAIN res.s.blockEntities :
              LET be == res.heap[res.s.blockEntities[idx]]
              IN  /\ ~OutOfBounds(res.s, be.X, be.Y, be.Z)
                  /\ index(res.s, be.X, be.Y, be.Z) = idx

\* C20 witness: a blueprint with a block, two block-entity records of
\* int32 coordinates and an entity position has been read, and the box is
\* wider than any one of them.
C20_Witness ==
    /\ call.op = "axiom.Read"
    /\ call.writer = "External"
    /\ FileBlocks(file) # {}
    /\ Cardinality({RecordPos(file, n) : n \in Int32Records(file)}) = 2
    /\ EntityCorners(file) # {}
    /\ "s" \in DOMAIN res
    /\ Cardinality(DOMAIN res.s.blockEntities) = 2
    /\ res.s.width > 1 /\ res.s.height > 1 /\ res.s.length > 1

---------------------------------------------------------------------------
(* SpecParse: a caller parses a block-state string and prints the state    *)
(* parsed.                                                                 *)

\* The property values of the strings parsed: the booleans, texts that are
\* no numerals, the numerals Atoi takes, and a numeral beyond 64 bits.
ParseValues ==
    {"true", "false", "north", "True", "9223372036854775808"} \cup DOMAIN Atoi

\* The strings parsed: a name with one or two properties.
ParseTexts ==
    {<<"minecraft:cake", "[", "level", "=", v, "]">> : v \in ParseValues}
    \cup {<<"minecraft:oak_stairs", "[", "lit", "=", v[1], ",", "level", "=", v[2], "]">> :
             v \in ParseValues \X ParseValues}

InitParse ==
    /\ schem = New(1, 1, 1, "")
    /\ heap = <<>>
    /\ \E t \in ParseTexts : call = [op |-> "New", writer |-> "none", text |-> t]
    /\ calls = 0
    /\ file = NoFile
    /\ res = NoResult

\* base.ParseBlockState(s)
DoParseBlockState ==
    /\ call.op = "New"
    /\ res' = [state |-> ParseBlockState(call.text)]
    /\ call' = [call EXCEPT !.op = "ParseBlockState"]
    /\ UNCHANGED <<schem, heap, calls, file>>

\* (*BlockState).String() of the state parsed
DoString ==
    /\ call.op = "ParseBlockState"
    /\ res' = [state |-> res.state, text |-> String(res.state)]
    /\ call' = [call EXCEPT !.op = "String"]
    /\ UNCHANGED <<schem, heap, calls, file>>

NextParse == DoParseBlockState \/ DoString

SpecParse == InitParse /\ [][NextParse]_vars

\* The decimal numerals of the model within [-2^31, 2^31 - 1] and their
\* values.
Int32Numerals ==
    [n \in {"0", "1", "7", "-1", "2147483647", "-2147483648"} |->
        CASE n = "0" -> 0
          [] n = "1" -> 1
          [] n = "7" -> 7
          [] n = "-1" -> -1
          [] n = "2147483647" -> 2147483647
          [] n = "-2147483648" -> -2147483647 - 1]

\* The "key=value" parts of the text parsed, as pairs.
TextParts(t) == {<<t[i - 1], t[i + 1]>> : i \in {j \in 2..(Len(t) - 1) : t[j] = "="}}

\* C22: ParseBlockState stores for every property a boolean when the value
\* is exactly true or false, the signed 32-bit integer when the value is a
\* decimal numeral within [-2^31, 2^31 - 1], and the raw string otherwise;
\* a numeral outside the range stays a string.  The code passes every
\* numeral strconv.Atoi takes through int32(i), so 2147483648 is stored as
\* the integer -2147483648 and this fails.
C22_PropertyTyping ==
    call.op = "ParseBlockState" =>
        \A part \in TextParts(call.text) :
            LET got == res.state.Properties[<<part[1]>>]
                v == part[2]
            IN  IF v \in {"true", "false"} THEN got = BoolValue(v = "true")
                ELSE IF v \in DOMAIN Int32Numerals THEN got = IntValue(Int32Numerals[v])
                ELSE got = StringValue(<<v>>)

---------------------------------------------------------------------------
(* SpecMcedit: a caller builds a schematic, writes it with mcedit.Write    *)
(* and reads the file back with mcedit.Read.  The reverse table init()     *)
(* left is part of the call record.                                        *)

McDims == {<<1, 1, 1>>, <<2, 1, 1>>, <<1, 2, 2>>}

\* The blocks of the schematics: none, states the reverse table has (the
\* stairs under two keys), and states it does not have.
McBlocks ==
    {Nil, Air, Stone, BlockState(<<"minecraft:granite">>, EmptyMap), Stairs, Cake,
     BlockState(<<"minecraft:dirt">>, EmptyMap)}

InitMcedit ==
    /\ \E d \in McDims, chest \in BOOLEAN :
          \E fill \in [1..(d[1] * d[2] * d[3]) -> McBlocks] :
             LET h == << NewBlockEntity("minecraft:chest", 0, 0, 0, EmptyMap) >>
                 s == Filled(d, fill, <<-5, 64, 7>>)
                 r == IF chest THEN SetBlockEntity(s, h, d[1] - 1, d[2] - 1, d[3] - 1, 1)
                      ELSE [s |-> s, heap |-> <<>>]
             IN  schem = r.s /\ heap = r.heap
    /\ \E rev \in ReverseTables :
          call = [op |-> "New", writer |-> "none", reverseLegacyBlocks |-> rev]
    /\ calls = 0
    /\ file = NoFile
    /\ res = NoResult

\* mcedit.Write(w, schem)
DoMceditWrite ==
    /\ call.op = "New"
    /\ file = NoFile
    /\ file' = mceditWrite(schem, heap, call.reverseLegacyBlocks)
    /\ call' = [call EXCEPT !.op = "mcedit.Write", !.writer = "mcedit.Write"]
    /\ res' = NoResult
    /\ UNCHANGED <<schem, heap, calls>>

NextMcedit == DoMceditWrite \/ DoMceditRead

SpecMcedit == InitMcedit /\ [][NextMcedit]_vars

\* The canonical strings the reverse table has, from the forward table.
MappedStrings ==
    {<<"minecraft:air">>, <<"minecraft:stone">>, <<"minecraft:granite">>,
     <<"minecraft:bedrock">>,
     <<"minecraft:oak_stairs", "[", "facing", "=", "north", ",", "lit", "=", "true", "]">>}

\* The cells of the schematic written, with the index of each in the byte
\* arrays (from 1).
McCells ==
    {[x |-> x, y |-> y, z |-> z, idx |-> (y * schem.length + z) * schem.width + x + 1] :
        x \in 0..(schem.width - 1), y \in 0..(schem.height - 1), z \in 0..(schem.length - 1)}

\* C21: mcedit.Write gives a file whatever the states are; a cell that has
\* no block, or whose canonical string is not in the reverse table, gets
\* the bytes (0, 0); and reading the file back gives, at every cell whose
\* canonical string is in the reverse table, a block with the same
\* canonical string.
C21_WriteThenRead ==
    /\ (call.op = "mcedit.Write" =>
          /\ file # NoFile
          /\ \A c \in McCells :
                LET b == Block(schem, c.x, c.y, c.z)
                IN  (b = Nil \/ String(b) \notin MappedStrings) =>
                       /\ file.root.Blocks[c.idx] = 0
                       /\ file.root.Data[c.idx] = 0)
    /\ (call.op = "mcedit.Read" /\ call.writer = "mcedit.Write" =>
          /\ "err" \notin DOMAIN res
          /\ \A c \in McCells :
                LET b == Block(schem, c.x, c.y, c.z)
                IN  (b # Nil /\ String(b) \in MappedStrings) =>
                       /\ Block(res.s, c.x, c.y, c.z) # Nil
                       /\ String(Block(res.s, c.x, c.y, c.z)) = String(b))

\* C21 witness: a schematic with granite, the stairs and a state the table
\* does not have was written, with the stairs under id 53 and meta 1, and
\* read back.
C21_Witness ==
    /\ call.op = "mcedit.Read"
    /\ call.writer = "mcedit.Write"
    /\ \E c \in McCells : Block(schem, c.x, c.y, c.z) = Cake /\ Block(res.s, c.x, c.y, c.z) # Cake
    /\ \E c \in McCells :
          /\ Block(schem, c.x, c.y, c.z) = Stairs
          /\ file.root.Blocks[c.idx] = 53
          /\ file.root.Data[c.idx] = 1
          /\ Block(res.s, c.x, c.y, c.z) = Stairs
    /\ \E c \in McCells :
          /\ Block(schem, c.x, c.y, c.z) # Nil
          /\ String(Block(schem, c.x, c.y, c.z)) = <<"minecraft:granite">>
          /\ file.root.Data[c.idx] = 1

---------------------------------------------------------------------------
(* SpecDetect: a caller hands bytes to format.Detect.                      *)

\* The bytes of the inputs: those of the two magics and 0.
DetectBytes == {10, 229, 187, 54, 31, 139, 0}

MaxPrefix == 5

\* The versions (-1 standing for a root without Version), the tag types
\* and the other root keys of the gzip inputs.
DetectVersions == {-1, 0, 1, 2, 3, 4, 6, 7}
DetectTags == {"int", "long"}
DetectKeys == {"Regions", "Materials", "Blocks", "Data"}

\* An input with these bytes in front; what follows them is a gzip stream
\* of the root when wellFormed is true.
BytesFile(data, root, tag, wellFormed) ==
    [head |-> headOf(data), data |-> data, root |-> root, versionTag |-> tag,
     wellFormed |-> wellFormed]

InitDetect ==
    /\ \/ \E n \in 0..MaxPrefix : \E data \in [1..n -> DetectBytes] :
             file = BytesFile(data, EmptyMap, "int", FALSE)
       \/ \E keys \in SUBSET DetectKeys, v \in DetectVersions, tag \in DetectTags :
             file = BytesFile(<<31, 139, 8, 0>>,
                              [k \in keys \cup (IF v = -1 THEN {} ELSE {"Version"}) |->
                                  IF k = "Version" THEN v ELSE <<>>],
                              tag, TRUE)
    /\ schem = New(1, 1, 1, "")
    /\ heap = <<>>
    /\ call = [op |-> "New", writer |-> "External", format |-> ""]
    /\ calls = 0
    /\ res = NoResult

NextDetect == DoDetect

SpecDetect == InitDetect /\ [][NextDetect]_vars

C26_GzipOrder ==
    (/\ call.op = "Detect"
     /\ file.head = "gzip"
     /\ Field(file, "wellFormed", TRUE)
     /\ "Regions" \notin DOMAIN file.root) =>
        LET root == file.root
            intVersion == "Version" \in DOMAIN root /\ Field(file, "versionTag", "int") = "int"
            three == {"Materials", "Blocks", "Data"} \subseteq DOMAIN root
        IN  /\ (intVersion /\ root.Version \in {1, 2, 3}) =>
                  res = [id |-> CASE root.Version = 1 -> "sponge_v1"
                                  [] root.Version = 2 -> "sponge_v2"
                                  [] root.Version = 3 -> "sponge_v3"]
            /\ (intVersion /\ root.Version \notin {1, 2, 3}) =>
                  res = [err |-> "unknown Sponge schematic version"]
            /\ (res = [id |-> "mcedit"]) <=> (~intVersion /\ three)
            /\ (~intVersion /\ ~three) => res = [err |-> "unknown gzip NBT format"]

\* C26 witness: a root with a TAG_Int Version of 4 and all of Materials,
\* Blocks and Data was refused as an unknown Sponge version.
C26_Witness ==
    /\ call.op = "Detect"
    /\ file.head = "gzip"
    /\ "Version" \in DOMAIN file.root
    /\ file.root.Version = 4
    /\ Field(file, "versionTag", "int") = "int"
    /\ {"Materials", "Blocks", "Data"} \subseteq DOMAIN file.root
    /\ "Regions" \notin DOMAIN file.root
    /\ res = [err |-> "unknown Sponge schematic version"]

---------------------------------------------------------------------------
(* SpecGzip: the gzip stream of one call.  The call record holds the       *)
(* function called and what its environment does: whether the gzip header  *)
(* of the source is bad, whether the NBT codec fails, whether the check of *)
(* the decoded data fails, whether closing the compressor fails and        *)
(* whether the destination refuses the bytes.  The result holds the state  *)
(* of the stream the call created: "none", "open" or "closed".             *)

\* WriteV1, WriteV2, WriteV3: the compressor writes into a buffer; Close is
\* called after Encode returned without an error, and the buffer then goes
\* to the destination.
spongeWriteExit(c) ==
    IF c.nbtErr THEN [err |-> "encode nbt", gz |-> "open"]
    ELSE IF c.closeErr THEN [err |-> "close gzip", gz |-> "closed"]
    ELSE IF c.ioErr THEN [err |-> "write", gz |-> "closed"]
    ELSE [ok |-> TRUE, gz |-> "closed"]

\* WriteV6 and litematica.Write: the compressor writes to the destination;
\* Close is called on the Encode error path and on the success path.
litematicaWriteExit(c) ==
    IF c.nbtErr \/ c.ioErr THEN [err |-> "encode nbt", gz |-> "closed"]
    ELSE IF c.closeErr THEN [err |-> "close gzip", gz |-> "closed"]
    ELSE [ok |-> TRUE, gz |-> "closed"]

\* axiom.Write from the compression of the block data on: Close on the
\* Encode error path and on the success path, then the framed writes.
axiomWriteExit(c) ==
    IF c.nbtErr THEN [err |-> "encode block data nbt", gz |-> "closed"]
    ELSE IF c.closeErr THEN [err |-> "close gzip", gz |-> "closed"]
    ELSE IF c.ioErr THEN [err |-> "write magic", gz |-> "closed"]
    ELSE [ok |-> TRUE, gz |-> "closed"]

\* mcedit.Write: Close is deferred right after NewWriter and its error is
\* dropped.
mceditWriteExit(c) ==
    IF c.nbtErr \/ c.ioErr THEN [err |-> "encode nbt", gz |-> "closed"]
    ELSE [ok |-> TRUE, gz |-> "closed"]

\* The readers and detectGzipFormat: no decompressor exists when NewReader
\* fails; otherwise Close is deferred right after NewReader.
readExit(c) ==
    IF c.headerErr THEN [err |-> "gzip decompress", gz |-> "none"]
    ELSE IF c.nbtErr THEN [err |-> "decode nbt", gz |-> "closed"]
    ELSE IF c.invalid THEN [err |-> "invalid", gz |-> "closed"]
    ELSE [ok |-> TRUE, gz |-> "closed"]

SpongeWriters == {"sponge.WriteV1", "sponge.WriteV2", "sponge.WriteV3"}
LitematicaWriters == {"litematica.WriteV6", "litematica.Write"}
GzipReaders ==
    {"sponge.ReadV1", "sponge.ReadV2", "sponge.ReadV3", "litematica.ReadV6",
     "litematica.Read", "axiom.Read", "mcedit.Read", "format.detectGzipFormat"}

InitGzip ==
    /\ schem = New(1, 1, 1, "")
    /\ heap = <<>>
    /\ \E fn \in SpongeWriters \cup LitematicaWriters \cup {"axiom.Write", "mcedit.Write"}
                 \cup GzipReaders,
          flags \in [{"headerErr", "nbtErr", "invalid", "closeErr", "ioErr"} -> BOOLEAN] :
          call = [op |-> "New", writer |-> "none", fn |-> fn,
                  headerErr |-> flags["headerErr"], nbtErr |-> flags["nbtErr"],
                  invalid |-> flags["invalid"], closeErr |-> flags["closeErr"],
                  ioErr |-> flags["ioErr"]]
    /\ calls = 0
    /\ file = NoFile
    /\ res = NoResult

\* One call of the function, to its return.
Returned(exit) ==
    /\ call.op = "New"
    /\ res' = exit
    /\ call' = [call EXCEPT !.op = "returned"]
    /\ UNCHANGED <<schem, heap, calls, file>>

DoGzipSpongeWrite == call.fn \in SpongeWriters /\ Returned(spongeWriteExit(call))
DoGzipLitematicaWrite == call.fn \in LitematicaWriters /\ Returned(litematicaWriteExit(call))
DoGzipAxiomWrite == call.fn = "axiom.Write" /\ Returned(axiomWriteExit(call))
DoGzipMceditWrite == call.fn = "mcedit.Write" /\ Returned(mceditWriteExit(call))
DoGzipRead == call.fn \in GzipReaders /\ Returned(readExit(call))

NextGzip ==
    \/ DoGzipSpongeWrite \/ DoGzipLitematicaWrite \/ DoGzipAxiomWrite
    \/ DoGzipMceditWrite \/ DoGzipRead

SpecGzip == InitGzip /\ [][NextGzip]_vars

\* C24: when a reader or a writer has returned, by whichever exit, the
\* gzip decompressor or compressor the call created has been closed.
\* WriteV1, WriteV2 and WriteV3 return the Encode error without closing
\* the compressor, so this fails.
C24_GzipClosed == call.op = "returned" => res.gz # "open"

---------------------------------------------------------------------------
(* SpecConcurrent: two goroutines call ReadFormat or WriteFormat at the    *)
(* same time, each on its own data.  The heap holds the package-level      *)
(* variables: the two registries, the legacy table and the reverse legacy  *)
(* table.  A call is two steps, the lookup in the registry and the run of  *)
(* the function found, and the steps of the two calls interleave.          *)

\* The lookup that opens ReadFormat and WriteFormat: the package-level
\* variables after it and the function found, "" for none.  The first
\* definition also registers the id it did not find.
lookupRegistering(pkg, op, formatID) ==
    LET registry == IF op = "ReadFormat" THEN pkg.formatReaders ELSE pkg.formatWriters
    IN  [pkg |-> IF formatID \in DOMAIN registry THEN pkg
                 ELSE IF op = "ReadFormat"
                      THEN [pkg EXCEPT !.formatReaders = @ @@ (formatID :> "")]
                      ELSE [pkg EXCEPT !.formatWriters = @ @@ (formatID :> "")],
         fn |-> Field(registry, formatID, "")]

lookup(pkg, op, formatID) ==
    LET registry == IF op = "ReadFormat" THEN pkg.formatReaders ELSE pkg.formatWriters
    IN  [pkg |-> pkg, fn |-> Field(registry, formatID, "")]

\* The run of the function found, on one cell of the caller's data:
\* mcedit.Read looks the two bytes up in legacyBlocks, mcedit.Write looks
\* the state up in reverseLegacyBlocks, and the other codecs use no
\* package-level variable.  The package-level variables after it and the
\* result.
run(pkg, fn, arg) ==
    [pkg |-> pkg,
     result |->
        CASE fn = "mcedit.Read" ->
                IF legacyKey(arg.id, arg.meta) \in DOMAIN pkg.legacyBlocks
                THEN ParseBlockState(pkg.legacyBlocks[legacyKey(arg.id, arg.meta)])
                ELSE Nil
          [] fn = "mcedit.Write" -> legacyBytes(arg.block, pkg.reverseLegacyBlocks)
          [] OTHER -> [ok |-> fn]]

Goroutines == {1, 2}

\* The calls: the function, the format id and the cell of the data.
ConcurrentCalls ==
    [op : {"ReadFormat", "WriteFormat"},
     formatID : {"mcedit", "sponge_v2", "nbt"},
     arg : {[block |-> Stone, id |-> 1, meta |-> 0], [block |-> Cake, id |-> 3, meta |-> 1]}]

InitConcurrent ==
    /\ schem = New(1, 1, 1, "")
    /\ heap = [formatReaders |-> formatReaders, formatWriters |-> formatWriters,
               legacyBlocks |-> legacyBlocks, reverseLegacyBlocks |-> EmptyMap]
    /\ \E cs \in [Goroutines -> ConcurrentCalls] :
          call = [op |-> "New", writer |-> "none", initialised |-> FALSE,
                  procs |-> [p \in Goroutines |->
                               [op |-> cs[p].op, formatID |-> cs[p].formatID,
                                arg |-> cs[p].arg, pc |-> "start", fn |-> ""]]]
    /\ calls = 0
    /\ file = NoFile
    /\ res = [p \in Goroutines |-> NoResult]

\* init() of the mcedit package, before any call.
DoPackageInit ==
    /\ ~call.initialised
    /\ \E rev \in ReverseTables : heap' = [heap EXCEPT !.reverseLegacyBlocks = rev]
    /\ call' = [call EXCEPT !.op = "init", !.initialised = TRUE]
    /\ UNCHANGED <<schem, calls, file, res>>

\* The first step of ReadFormat / WriteFormat in one goroutine.
DoLookup ==
    \E p \in Goroutines :
        LET c == call.procs[p]
            r == lookup(heap, c.op, c.formatID)
        IN  /\ call.initialised
            /\ c.pc = "start"
            /\ heap' = r.pkg
            /\ call' = [call EXCEPT !.op = c.op,
                                    !.procs[p].fn = r.fn,
                                    !.procs[p].pc = IF r.fn = "" THEN "done" ELSE "dispatched"]
            /\ res' = [res EXCEPT ![p] = IF r.fn = "" THEN [err |-> "unsupported format"]
                                         ELSE @]
            /\ UNCHANGED <<schem, calls, file>>

\* The second step: reader(r) / writer(w, schem) in one goroutine.
DoRun ==
    \E p \in Goroutines :
        LET c == call.procs[p]
            r == run(heap, c.fn, c.arg)
        IN  /\ c.pc = "dispatched"
            /\ heap' = r.pkg
            /\ call' = [call EXCEPT !.op = c.fn, !.procs[p].pc = "done"]
            /\ res' = [res EXCEPT ![p] = r.result]
            /\ UNCHANGED <<schem, calls, file>>

NextConcurrent == DoPackageInit \/ DoLookup \/ DoRun

SpecConcurrent == InitConcurrent /\ [][NextConcurrent]_vars

\* C25: once the package is initialised, no step of any call, in any
\* interleaving, changes a package-level variable: the registries, the
\* legacy table and the reverse legacy table stay as initialisation left
\* them.
C25_NoWriteAfterInit == [][call.initialised => heap' = heap]_vars

\* C25 witness: both goroutines are between their lookup and their run,
\* one in mcedit.Write and one in mcedit.Read, with the reverse table
\* initialised.
C25_Witness ==
    /\ call.op \in {"ReadFormat", "WriteFormat"}
    /\ "procs" \in DOMAIN call
    /\ call.initialised
    /\ call.procs[1].pc = "dispatched"
    /\ call.procs[1].fn = "mcedit.Write"
    /\ call.procs[2].pc = "dispatched"
    /\ call.procs[2].fn = "mcedit.Read"
    /\ heap.reverseLegacyBlocks # EmptyMap

---------------------------------------------------------------------------
(* SpecBits: the bits per entry the four Litematica functions compute for  *)
(* a palette of a given size.                                              *)

MaxPalette == 70

InitBits ==
    /\ schem = New(1, 1, 1, "")
    /\ heap = <<>>
    /\ \E n \in 1..MaxPalette : call = [op |-> "New", writer |-> "none", paletteSize |-> n]
    /\ calls = 0
    /\ file = NoFile
    /\ res = NoResult

\* The width one of the functions takes for the palette of the call.
Computed(fn, bitsPerEntry) ==
    /\ call.op = "New"
    /\ res' = [bitsPerEntry |-> bitsPerEntry]
    /\ call' = [call EXCEPT !.op = fn]
    /\ UNCHANGED <<schem, heap, calls, file>>

DoBitsReadV6 == Computed("litematica.ReadV6", bitsPerEntryV6(call.paletteSize))
DoBitsWriteV6 == Computed("litematica.WriteV6", bitsPerEntryV6(call.paletteSize))
DoBitsRead == Computed("litematica.Read", bitsPerEntryLegacy(call.paletteSize))
DoBitsWrite == Computed("litematica.Write", bitsPerEntryLegacy(call.paletteSize))

NextBits == DoBitsReadV6 \/ DoBitsWriteV6 \/ DoBitsRead \/ DoBitsWrite

SpecBits == InitBits /\ [][NextBits]_vars

\* The least k with 2^k >= n.
CeilLog2(n) == CHOOSE k \in 0..31 : 2^k >= n /\ \A j \in 0..(k - 1) : 2^j < n

\* C27: for a palette of n >= 1 entries every Litematica reader and writer
\* takes max(2, ceil(log2 n)) bits per entry, a width that holds every
\* index up to n - 1.  litematica.Read and litematica.Write take
\* bits.Len(n), one bit more when n is a power of two from 4 on, so this
\* fails.
C27_BitsPerEntry ==
    call.op # "New" =>
        /\ res.bitsPerEntry = Max(2, CeilLog2(call.paletteSize))
        /\ call.paletteSize - 1 < 2^res.bitsPerEntry

---------------------------------------------------------------------------
(* SpecVarIntBytes: a caller hands the same bytes to DecodeVarInt, as a    *)
(* slice, and to ReadVarInt, as a stream.                                  *)

\* The bytes: the least and the greatest byte without and with the
\* continuation bit, and 1.
VarIntBytes == {0, 1, 127, 128, 255}

MaxVarIntLen == 6

InitVarIntBytes ==
    /\ \E n \in 0..MaxVarIntLen : \E data \in [1..n -> VarIntBytes] :
          file = [bytes |-> data]
    /\ schem = New(1, 1, 1, "")
    /\ heap = <<>>
    /\ call = [op |-> "New", writer |-> "External"]
    /\ calls = 0
    /\ res = NoResult

\* base.DecodeVarInt(data) on the bytes
DoDecodeBytes ==
    /\ call.op = "New"
    /\ res' = [decoded |-> DecodeVarIntWide(file.bytes)]
    /\ call' = [call EXCEPT !.op = "DecodeVarInt"]
    /\ UNCHANGED <<schem, heap, calls, file>>

\* base.ReadVarInt(r) on a reader of the same bytes
DoReadVarInt ==
    /\ call.op = "DecodeVarInt"
    /\ res' = [decoded |-> res.decoded, read |-> ReadVarInt(file.bytes)]
    /\ call' = [call EXCEPT !.op = "ReadVarInt"]
    /\ UNCHANGED <<schem, heap, calls, file>>

NextVarIntBytes == DoDecodeBytes \/ DoReadVarInt

SpecVarIntBytes == InitVarIntBytes /\ [][NextVarIntBytes]_vars

\* The number of bytes of the first VarInt of the bytes: up to and with
\* the first byte without the continuation bit; 0 when there is none.
FirstVarIntLen(data) ==
    IF \E i \in 1..Len(data) : data[i] < 128
    THEN CHOOSE i \in 1..Len(data) : data[i] < 128 /\ \A j \in 1..(i - 1) : data[j] >= 128
    ELSE 0

\* C28: on the same bytes ReadVarInt and DecodeVarInt either both fail or
\* both return the same value, and both fail when the VarInt takes more
\* than 5 bytes and when the bytes end inside it.  ReadVarInt returns a
\* value for a VarInt of 6 bytes, so this fails.
C28_DecodersAgree ==
    call.op = "ReadVarInt" =>
        LET n == FirstVarIntLen(file.bytes)
        IN  /\ ("err" \in DOMAIN res.read) <=> ("err" \in DOMAIN res.decoded)
            /\ "err" \notin DOMAIN res.read => res.read.value = res.decoded.value
            /\ (n = 0 \/ n > 5) => "err" \in DOMAIN res.read /\ "err" \in DOMAIN res.decoded

---------------------------------------------------------------------------
(* SpecRegions: a caller reads the same Litematica bytes twice with the    *)
(* same reader.  The file holds one or two regions under any names.        *)

\* The region names of the files, the empty name among them.
RegionNames == {"", "Main", "Roof"}

\* The regions: one or two cells, each air or stone.
RegionContents ==
    {[Position |-> [x |-> -4, y |-> 64, z |-> 7],
      Size |-> [x |-> size[1], y |-> size[2], z |-> size[3]],
      BlockStatePalette |-> <<[Name |-> <<"minecraft:air">>], [Name |-> <<"minecraft:stone">>]>>,
      BlockStates |-> PackLongArrayTight(indices, 2)] :
        size \in {<<1, 1, 1>>},
        indices \in [1..1 -> {0, 1}]}
    \cup
    {[Position |-> [x |-> -4, y |-> 64, z |-> 7],
      Size |-> [x |-> 2, y |-> 1, z |-> 1],
      BlockStatePalette |-> <<[Name |-> <<"minecraft:air">>], [Name |-> <<"minecraft:stone">>]>>,
      BlockStates |-> PackLongArrayTight(indices, 2)] :
        indices \in [1..2 -> {0, 1}]}

InitRegions ==
    /\ \E version \in {6, 7}, names \in SUBSET RegionNames :
          /\ Cardinality(names) \in {1, 2}
          /\ \E regions \in [names -> RegionContents] :
                file = [head |-> "gzip",
                        root |-> [Version |-> version, MinecraftDataVersion |-> 3465,
                                  Regions |-> regions]]
    /\ schem = New(1, 1, 1, "")
    /\ heap = <<>>
    /\ call = [op |-> "New", writer |-> "External"]
    /\ calls = 0
    /\ res = NoResult

\* litematica.ReadV6(r) on the bytes, a first time
DoFirstReadV6 ==
    /\ call.op = "New"
    /\ \E regionName \in RegionChoices(file) : res' = [first |-> ReadV6(file, regionName)]
    /\ call' = [call EXCEPT !.op = "ReadV6"]
    /\ UNCHANGED <<schem, heap, calls, file>>

\* litematica.Read(r) on the bytes, a first time
DoFirstRead ==
    /\ call.op = "New"
    /\ \E regionName \in RegionChoices(file) :
          res' = [first |-> litematicaRead(file, regionName)]
    /\ call' = [call EXCEPT !.op = "Read"]
    /\ UNCHANGED <<schem, heap, calls, file>>

\* The same reader on the same bytes, a second time
DoSecondRead ==
    /\ call.op \in {"ReadV6", "Read"}
    /\ \E regionName \in RegionChoices(file) :
          res' = [first |-> res.first,
                  second |-> IF call.op = "ReadV6" THEN ReadV6(file, regionName)
                             ELSE litematicaRead(file, regionName)]
    /\ call' = [call EXCEPT !.op = "second", !.writer = call.op]
    /\ UNCHANGED <<schem, heap, calls, file>>

NextRegions == DoFirstReadV6 \/ DoFirstRead \/ DoSecondRead

SpecRegions == InitRegions /\ [][NextRegions]_vars

\* C29: for a file whose Regions map is not empty, whatever the names, a
\* read of a supported version selects a region and does not fail with
\* no regions found, and two reads of the same bytes select the same
\* region and return equal schematics.  The range over the Regions map
\* starts at an arbitrary entry and a region with the empty name counts
\* as none, so this fails.
C29_RegionSelection ==
    (call.op = "second" /\ (file.root.Version = 6 \/ call.writer = "Read")) =>
        /\ "s" \in DOMAIN res.first
        /\ "s" \in DOMAIN res.second
        /\ res.first.s = res.second.s

---------------------------------------------------------------------------
(* SpecFaults: Sponge files of the right shape whose palette fields and    *)
(* block data other programs wrote, read by the Sponge readers.            *)

\* The PaletteMax values, the index the palette gives stone, and the block
\* data: VarInts of one byte, fewer than the cells, as many, or more.
FaultPaletteMax == {-2, -1, 0, 1}
FaultIndices == {-1, 0, 1}
FaultBlockData == UNION {[1..n -> {0, 1}] : n \in 0..3}

\* A Sponge file of the version with positive dimensions.
FaultFile(version, d, paletteMax, idx, blockData) ==
    LET Palette == [name \in {<<"minecraft:stone">>} |-> idx]
    IN  [head |-> "gzip",
         root |-> IF version = 3
                  THEN [Schematic |->
                          [Version |-> 3, DataVersion |-> 3465,
                           Width |-> d[1], Height |-> d[2], Length |-> d[3],
                           Blocks |-> [Palette |-> Palette, Data |-> blockData]]]
                  ELSE [Version |-> version, DataVersion |-> 3465,
                        Width |-> d[1], Height |-> d[2], Length |-> d[3],
                        PaletteMax |-> paletteMax, Palette |-> Palette,
                        BlockData |-> blockData]]

InitFaults ==
    /\ \E version \in {1, 2, 3}, d \in {<<1, 1, 1>>, <<2, 1, 1>>},
          paletteMax \in FaultPaletteMax, idx \in FaultIndices, blockData \in FaultBlockData :
          /\ (version = 3 => paletteMax = 0)
          /\ file = FaultFile(version, d, paletteMax, idx, blockData)
    /\ schem = New(1, 1, 1, "")
    /\ heap = <<>>
    /\ call = [op |-> "New", writer |-> "External"]
    /\ calls = 0
    /\ res = NoResult

NextFaults == DoReadV1 \/ DoReadV2 \/ DoReadV3

SpecFaults == InitFaults /\ [][NextFaults]_vars

\* C30: on a well-formed file of its version with positive dimensions,
\* whatever PaletteMax, the palette indices and the length of the block
\* data are, ReadV1, ReadV2 and ReadV3 return a schematic or an error and
\* never end in a runtime fault.  A PaletteMax below -1 and a negative
\* palette index make the readers panic, so this fails.
C30_NoRuntimeFault ==
    call.op \in {"ReadV1", "ReadV2", "ReadV3"} =>
        /\ "panic" \notin DOMAIN res
        /\ "s" \in DOMAIN res \/ "err" \in DOMAIN res

====
